---- MODULE Spec2Model ----
(***************************************************************************)
(* A model of the Varying ("Cell") propagation core that the janus-docs    *)
(* theory chapter docs/theory/varying.md documents: a container that       *)
(* always holds a value, reactions (observers) fired in registration       *)
(* order, the strict-equality gate of set, the generation guard of         *)
(* overlapping change waves, and lazily reacting map / flatMap results.    *)
(*                                                                         *)
(* Propagation is synchronous and re-entrant: set runs its whole wave,     *)
(* nested sets included, before it returns.  The operations are therefore  *)
(* recursive operators over a record of the whole object graph, and every  *)
(* action of the model is one complete external call.                      *)
(***************************************************************************)
EXTENDS Integers, Sequences, FiniteSets, TLC

VARIABLES
  val,      \* cell -> the value the cell holds
  gen,      \* cell -> generation of the cell's last accepted set
  obsv,     \* cell -> observation ids, in registration order
  refs,     \* cell -> number of observations created and not yet stopped
  ob,       \* observation id -> [cell, kind, immediate, stopped, owner]
  up,       \* derived cell -> id of its reaction on its source (0: none)
  inner,    \* derived cell -> id of its reaction on the inner cell (0: none)
  calls,    \* derived cell -> number of executions of its mapping function
  touched,  \* derived cell -> get or react was called on it or a dependant
  log,      \* every callback invocation, in the order they happened
  res,      \* every creation and destruction of a managed resource, in order
  trail,    \* when a managed cell called its last function and let its inner go
  made,     \* number of Varyings the program has constructed while running
  thrown,   \* the external call that produced this state ended by throwing
  halted,   \* the observations the program has called stop() on
  budget,   \* the state-changing calls the program may still make
  last,     \* the external call that produced this state
  stack,    \* the calls of set and react that have not returned yet
  view,     \* the EditorView, its CodeMirror editor and its subject
  article   \* article-to-json: the document being processed and its samples

vars ==
  <<val, gen, obsv, refs, ob, up, inner, calls, touched, log, res, trail, made,
    thrown, halted, budget, last, stack, view, article>>

-----------------------------------------------------------------------------
(* Bounds *)

\* The calls of one run that change the object graph (a react, an accepted
\* set, a get answered by mapping); calls that change nothing are not counted.
MaxCellCalls == 3     \* in the program of the react, stop and coercion samples
MaxFlatCalls == 5     \* in the program of the flatMap sample
MaxMapCalls == 3      \* in the program of the lazy map samples
MaxDerivedCalls == 3  \* in the program of the map and flatMap samples together
MaxCountCalls == 3    \* in the program of the refCount samples
MaxManagedCalls == 3  \* in the program of the managed sample
MaxFaultCalls == 4    \* in the program with callbacks that throw
MaxOfCalls == 4       \* in the program of the sample on creating Varyings
MaxAllCalls == 4      \* in the program of the mapAll, all and lift samples
MaxReleaseCalls == 3  \* in the program with a resource whose destroy() throws
MaxGetCalls == 3      \* in the program of the get samples
MaxGenCalls == 3      \* in the program of the coercion sample with get
MaxWaveCalls == 4     \* in the program with callbacks that stop or make reactions
MaxFlattenCalls == 4  \* in the program of the notes on flattening
MaxGateCalls == 4     \* in the program with a mapping under which values collide
MaxPlainCalls == 4    \* in the program with a flatMap that may give a plain value
MaxLendCalls == 4     \* in the program of the managed sample with get
MaxCascadeCalls == 4  \* in the program of the coercion sample, taken call by call
MaxStack == 4         \* the calls of set that may be in progress at once
MaxEditorCalls == 4   \* the edits, sets and reactions of the program with an EditorView
MaxLen == 4           \* the top-level elements of a document given to article-to-json

-----------------------------------------------------------------------------
(* Values.  A value is a tagged record, so that numbers, strings and       *)
(* Varyings held as values can be compared with each other, as === can.    *)

Num(n) == [k |-> "num", n |-> n]
Str(t) == [k |-> "str", t |-> t]
Ref(c) == [k |-> "cell", c |-> c]

IsRef(x) == x.k = "cell"

\* An array of values; arrays are objects, so two arrays are strictly
\* equal only when they are the same array: id tells them apart.
Tup(e, id) == [k |-> "tup", e |-> e, id |-> id]

\* What arithmetic on something that is not a number gives.
NaN == [k |-> "nan"]

\* (x, y) => x * y
Multiply(x, y) == IF x.k = "num" /\ y.k = "num" THEN Num(x.n * y.n) ELSE NaN

\* Numbers of the cell v are counted in halves: 7 is 3.5 and 8 is 4.
Halves == 2

\* Math.round on a number counted in halves (round half up).
Round(x) == Num(((2 * x.n + Halves) \div (2 * Halves)) * Halves)

-----------------------------------------------------------------------------
(* The object graph of the samples.                                        *)
(*   v                      the Varying of the react / stop / coercion     *)
(*                          samples                                        *)
(*   choose, odds, evens    the sources of the flatMap sample              *)
(*   d = choose.flatMap(which => which === 'odds' ? odds : evens)          *)
(*   a, b = a.map(x => x * 4)   the lazy map sample                        *)
(*   b2 = b.map(x => x + 1)     a second mapping strung onto the first     *)
(*   w, wc = w.refCount()       the refCount samples                       *)
(*   m = Varying.managed(..)    the managed sample; mi is the Varying its  *)
(*                              last function returns                      *)
(*   mf = Varying.managed(..)   the same with a first resource whose       *)
(*                              destroy() throws; mfi as mi                *)
(*   n2, n3                     Varyings holding Varyings: n2 holds odds   *)
(*                              or evens, n3 holds n2                      *)
(*   f1 = n3.flatten(), f2 = f1.flatten()                                  *)
(*   fb = a.flatMap(x => x * 4) the mapping of b given to flatMap          *)
(*   h = a.map(x => x % 2)      a mapping under which values of a collide  *)
(*   e = choose.flatMap(which => which === 'odds' ? odds : 0)              *)
(*   p1, p2, ..                 the Varyings the program constructs while   *)
(*                              it runs, in the order of construction      *)
(*   x, y                       the sources of the samples on several      *)
(*                              Varyings                                   *)
(*   z = Varying.mapAll(x, y, (x, y) => x * y)                             *)
(*   xy = Varying.all([ x, y ]),  xym = xy.map((x, y) => x * y)            *)
(*   zl = Varying.lift((x, y) => x * y)(x, y)                              *)

Roots == {"v", "choose", "odds", "evens", "a", "w", "x", "y", "n2", "n3"}
Derived == {"d", "b", "b2", "xym", "f1", "f2", "fb", "h", "e"}
Combined == {"z", "xy", "zl"}
Counters == {"wc"}
Managed == {"m", "mf"}
Computed == {"mi", "mfi"}
Pool == <<"p1", "p2", "p3", "p4", "p5">>
Constructed == {Pool[i] : i \in 1..Len(Pool)}
Cells ==
  Roots \cup Derived \cup Combined \cup Counters \cup Managed \cup Computed
    \cup Constructed

\* The Varying whose reactions the refCount Varying n counts.
Counted(n) == CASE n = "wc" -> "w"

\* The number the second refCount sample sneaks in once somebody cares.
Answer == 42

\* The resource functions of the managed Varying c, in the order given.
Resources(c) ==
  CASE c = "m" -> <<"expensive", "anotherExpensive">>
    [] c = "mf" -> <<"brittle", "anotherExpensive">>

\* The resources whose destroy() throws.
Throws(r) == r = "brittle"

\* ExpensiveClass#result
Result == 42

\* The last function of the managed Varying c: the Varying it returns and
\* the value that Varying is made with.
Compute(c) ==
  CASE c = "m" -> [c |-> "mi", v |-> Num(Result)]
    [] c = "mf" -> [c |-> "mfi", v |-> Num(Result)]

Source(c) ==
  CASE c = "d" -> "choose"
    [] c = "b" -> "a"
    [] c = "b2" -> "b"
    [] c = "xym" -> "xy"
    [] c = "f1" -> "n3"
    [] c = "f2" -> "f1"
    [] c \in {"fb", "h"} -> "a"
    [] c = "e" -> "choose"

\* The Varyings that a Varying made of several is made of, in order.
Sources(c) == <<"x", "y">>

Flattens(c) == c \in {"d", "f1", "f2", "fb", "e"}

\* a map on the result of all that hands the array to the function as its
\* first argument
MapFnUnspread(c, x) ==
  CASE c = "d" -> (IF x = Str("odds") THEN Ref("odds") ELSE Ref("evens"))
    [] c = "b" -> Num(x.n * 4)
    [] c = "b2" -> Num(x.n + 1)
    [] c = "xym" -> Multiply(x, NaN)
    [] c \in {"f1", "f2"} -> x
    [] c = "fb" -> Num(x.n * 4)
    [] c = "h" -> Num(x.n % 2)
    [] c = "e" -> (IF x = Str("odds") THEN Ref("odds") ELSE Num(0))

\* The mapping functions; the one given to map on the result of all takes
\* the values of the array as its arguments.
MapFn(c, x) ==
  CASE c = "d" -> (IF x = Str("odds") THEN Ref("odds") ELSE Ref("evens"))
    [] c = "b" -> Num(x.n * 4)
    [] c = "b2" -> Num(x.n + 1)
    [] c = "xym" -> Multiply(x.e[1], x.e[2])
    [] c \in {"f1", "f2"} -> x
    [] c = "fb" -> Num(x.n * 4)
    [] c = "h" -> Num(x.n % 2)
    [] c = "e" -> (IF x = Str("odds") THEN Ref("odds") ELSE Num(0))

\* The function given to mapAll and to lift, applied to the values in
\* order; all gives the values themselves, as the array t.
Fn(c, t) == IF c = "xy" THEN t ELSE Multiply(t.e[1], t.e[2])

\* The cells whose value is computed from c (c included).
RECURSIVE Dependants(_)
Dependants(c) ==
  {c} \cup UNION {Dependants(d) : d \in {e \in Derived : Source(e) = c}}

State ==
  [val |-> val, gen |-> gen, obsv |-> obsv, refs |-> refs, ob |-> ob,
   up |-> up, inner |-> inner, calls |-> calls, log |-> log, res |-> res,
   trail |-> trail, made |-> made, fault |-> FALSE]

Without(seq, o) == SelectSeq(seq, LAMBDA e : e # o)

-----------------------------------------------------------------------------
(* Creating a Varying.  Each way takes the object graph s and gives the    *)
(* graph afterwards together with the Varying handed back.                 *)

\* new Varying(x): always a Varying containing the given value.
New(s, x) ==
  LET c == Pool[s.made + 1]
  IN [s |-> [s EXCEPT !.made = @ + 1, !.val[c] = x], v |-> Ref(c)]

\* Varying.of that wraps whatever it is given
OfAlwaysWraps(s, x) == New(s, x)

\* Varying.of(x): hands back x if it is already a Varying, or else does
\* the same thing as the constructor.
Of(s, x) == IF IsRef(x) THEN [s |-> s, v |-> x] ELSE New(s, x)

-----------------------------------------------------------------------------
(* The operations of a Varying.  Each takes the object graph s and returns *)
(* the graph after the call has returned, nested calls included.           *)

RECURSIVE SetValue(_, _, _), Propagate(_, _, _, _, _), Invoke(_, _, _, _, _)
RECURSIVE React(_, _, _, _, _), StopObs(_, _), Halt(_, _), MapCallback(_, _, _)
RECURSIVE GetValue(_, _), Count(_, _), Activate(_, _), Deactivate(_, _)
RECURSIVE Recompute(_, _), Bind(_, _, _), Unbind(_, _), Destroy(_, _, _)

\* a call that carries on whatever a callback has thrown
UnwindingNever(s) == FALSE

\* A callback has thrown and nothing has caught it: every call on the way
\* out to the program ends where it is.
Unwinding(s) == s.fault

\* The reactions a wave will call: the list as it is when the value changes.
Snapshot(s, c) == s.obsv[c]

\* A reaction that has been stopped is inert.
IsStopped(s, o) == s.ob[o].stopped

\* The new reaction takes the last place of the list once its immediate
\* callback has returned, unless that callback has stopped it.
Register(s, o) ==
  IF IsStopped(s, o) THEN s
  ELSE [s EXCEPT !.obsv[s.ob[o].cell] = Append(@, o)]

\* a halt that only counts down and leaves the reaction in place
HaltForgets(s, o) == [s EXCEPT !.refs[s.ob[o].cell] = @ - 1]

\* a halt after which a mapped Varying keeps reacting on its source
HaltKeepsSource(s, o) ==
  [s EXCEPT !.ob[o].stopped = TRUE,
            !.obsv[s.ob[o].cell] = Without(@, o),
            !.refs[s.ob[o].cell] = @ - 1]

\* Halting a reaction: it leaves its Varying's list and is never called
\* again, and refCount hears of it.  A Varying that no longer has any
\* reaction on it stops the work it does for its reactions.
Halt(s, o) ==
  LET c == s.ob[o].cell
      s0 == [s EXCEPT !.ob[o].stopped = TRUE,
                      !.obsv[c] = Without(@, o),
                      !.refs[c] = @ - 1]
      s1 == Count(s0, c)
  IN IF s1.refs[c] = 0 THEN Deactivate(s1, c) ELSE s1

\* stop() that does its work again on every call
StopObsRepeats(s, o) == Halt(s, o)

\* Observation#stop: halts the reaction; stopping again does nothing.
StopObs(s, o) == IF IsStopped(s, o) THEN s ELSE Halt(s, o)

\* a wave that ends at the first reaction it finds stopped
PropagateEndsAtStopped(s, c, g, snap, i) ==
  IF i > Len(snap) THEN s
  ELSE IF Unwinding(s) THEN s
  ELSE IF s.gen[c] # g THEN s
  ELSE IF IsStopped(s, snap[i]) THEN s
  ELSE Propagate(Invoke(s, snap[i], s.val[c], g, FALSE), c, g, snap, i + 1)

\* a wave that goes through the list as it is now, not as it was when the
\* value changed
PropagateLive(s, c, g, snap, i) ==
  IF i > Len(s.obsv[c]) THEN s
  ELSE IF Unwinding(s) THEN s
  ELSE IF s.gen[c] # g THEN s
  ELSE IF IsStopped(s, s.obsv[c][i]) THEN Propagate(s, c, g, snap, i + 1)
  ELSE Propagate(Invoke(s, s.obsv[c][i], s.val[c], g, FALSE), c, g, snap, i + 1)

\* a wave that carries on with a value of an older generation
PropagateStale(s, c, g, snap, i) ==
  IF i > Len(snap) THEN s
  ELSE IF IsStopped(s, snap[i]) THEN Propagate(s, c, g, snap, i + 1)
  ELSE Propagate(Invoke(s, snap[i], s.val[c], g, FALSE), c, g, snap, i + 1)

\* a wave that calls the last-registered reaction first
PropagateNewestFirst(s, c, g, snap, i) ==
  LET o == snap[Len(snap) + 1 - i]
  IN IF i > Len(snap) THEN s
     ELSE IF s.gen[c] # g THEN s
     ELSE IF IsStopped(s, o) THEN Propagate(s, c, g, snap, i + 1)
     ELSE Propagate(Invoke(s, o, s.val[c], g, FALSE), c, g, snap, i + 1)

\* The wave of one accepted set: the reactions registered when the value
\* changed are called first-registered first; the wave bails out as soon as
\* the Varying has moved on to a newer generation (and when a callback has
\* thrown).
Propagate(s, c, g, snap, i) ==
  IF i > Len(snap) THEN s
  ELSE IF Unwinding(s) THEN s
  ELSE IF s.gen[c] # g THEN s
  ELSE IF IsStopped(s, snap[i]) THEN Propagate(s, c, g, snap, i + 1)
  ELSE Propagate(Invoke(s, snap[i], s.val[c], g, FALSE), c, g, snap, i + 1)

\* set that moves the generation on before it compares the values
SetValueCountsFirst(s, c, v) ==
  LET g == s.gen[c] + 1
      s1 == [s EXCEPT !.val[c] = v, !.gen[c] = g]
  IN IF s.val[c] = v THEN [s EXCEPT !.gen[c] = g]
     ELSE Propagate(s1, c, g, Snapshot(s1, c), 1)

\* set that runs the mapping functions of the Varyings mapped from c
SetValueEager(s, c, v) ==
  IF s.val[c] = v THEN s
  ELSE LET g == s.gen[c] + 1
           s1 == [s EXCEPT !.val[c] = v, !.gen[c] = g,
                           !.calls = [d \in Derived |->
                                        IF Source(d) = c THEN @[d] + 1 ELSE @[d]]]
       IN Propagate(s1, c, g, Snapshot(s1, c), 1)

\* Varying#set: nothing at all happens when the new value is strictly
\* equal to the extant one; otherwise the value is replaced, the
\* generation moves on and the change is pushed to the reactions.
SetValue(s, c, v) ==
  IF s.val[c] = v THEN s
  ELSE LET g == s.gen[c] + 1
           s1 == [s EXCEPT !.val[c] = v, !.gen[c] = g]
       IN Propagate(s1, c, g, Snapshot(s1, c), 1)

\* The event of resource r of the managed Varying c being created or
\* destroyed.
Event(op, c, r) == [op |-> op, c |-> c, r |-> r]

\* The managed Varying c calls its last function, or stops reacting on the
\* Varying that function gave, in the graph s: what has happened to its
\* resources by then and what reacts on that Varying.
Step(op, c, s) ==
  [op |-> op, c |-> c, at |-> Len(s.res), on |-> s.refs[Compute(c).c]]

\* a managed Varying that hangs on to its resources
ReleaseNothing(s, c) == s

\* destroy() is called on the resources of c from the i-th on, until one
\* of the calls throws.
Destroy(s, c, i) ==
  IF i > Len(Resources(c)) \/ Unwinding(s) THEN s
  ELSE Destroy([s EXCEPT !.res = Append(@, Event("destroy", c, Resources(c)[i])),
                         !.fault = Throws(Resources(c)[i])],
               c, i + 1)

\* Varying.managed, nobody cares any more: destroy() is called on each
\* resource.
Release(s, c) == Destroy(s, c, 1)

\* Varying.managed, somebody cares: all the resource functions are called.
Create(s, c) ==
  [s EXCEPT !.res = @ \o [i \in 1..Len(Resources(c)) |->
                            Event("create", c, Resources(c)[i])]]

\* an array that has the first Varying's value in every place
TupleOfFirst(s, c) ==
  Tup([i \in 1..Len(Sources(c)) |-> GetValue(s, Sources(c)[1]).v], s.calls[c])

\* The array of the values the Varyings c is made of hold now.
Tuple(s, c) ==
  Tup([i \in 1..Len(Sources(c)) |-> GetValue(s, Sources(c)[i]).v], s.calls[c])

\* The function of c is applied to all the present values and the result
\* applied to c.
Recompute(s, c) ==
  LET s1 == [s EXCEPT !.calls[c] = @ + 1]
  IN SetValue(s1, c, Fn(c, Tuple(s1, c)))

\* c reacts on each of the Varyings it is made of, from the i-th on.
Bind(s, c, i) ==
  IF i > Len(Sources(c)) THEN s
  ELSE Bind(React(s, Sources(c)[i], "part", FALSE, c), c, i + 1)

\* c stops every reaction it holds.
Unbind(s, c) ==
  LET held == {o \in 1..Len(s.ob) : s.ob[o].owner = c /\ ~s.ob[o].stopped}
  IN IF held = {} THEN s
     ELSE Unbind(StopObs(s, CHOOSE o \in held : \A q \in held : o <= q), c)

\* A Varying gains its first reaction.  A mapped Varying reacts on its
\* source with a callback that maps the result and applies it to itself; a
\* managed Varying creates its resources, hands them to its last function
\* and tracks the Varying that function returns; a Varying made of several
\* reacts on each of them and takes the result for their present values.
Activate(s, c) ==
  CASE c \in Derived -> React(s, Source(c), "map", TRUE, c)
    [] c \in Managed ->
         LET n == Compute(c)
             s1 == Create(s, c)
             s2 == [s1 EXCEPT !.val[n.c] = n.v, !.gen[n.c] = 0,
                              !.trail = Append(@, Step("compute", c, s1))]
         IN React(s2, n.c, "inner", TRUE, c)
    [] c \in Combined -> Recompute(Bind(s, c, 1), c)
    [] OTHER -> s

\* a managed Varying that frees its resources before anything else
DeactivateReleasesFirst(s, c) ==
  CASE c \in Derived ->
         LET s2 == IF s.up[c] # 0 THEN StopObs(s, s.up[c]) ELSE s
             s3 == IF s2.inner[c] # 0 THEN StopObs(s2, s2.inner[c]) ELSE s2
         IN [s3 EXCEPT !.up[c] = 0, !.inner[c] = 0]
    [] c \in Managed ->
         LET s2 == Release(s, c)
             s3 == IF s2.inner[c] # 0 THEN StopObs(s2, s2.inner[c]) ELSE s2
         IN IF Unwinding(s2) THEN s2
            ELSE [s3 EXCEPT !.inner[c] = 0,
                            !.trail = Append(@, Step("letgo", c, s3))]
    [] c \in Combined -> Unbind(s, c)
    [] OTHER -> s

\* A Varying loses its last reaction.  A mapped Varying stops reacting on
\* its source and on the inner Varying it tracks; a managed Varying stops
\* tracking the Varying it was given and frees its resources.
Deactivate(s, c) ==
  CASE c \in Derived ->
         LET s2 == IF s.up[c] # 0 THEN StopObs(s, s.up[c]) ELSE s
             s3 == IF s2.inner[c] # 0 THEN StopObs(s2, s2.inner[c]) ELSE s2
         IN [s3 EXCEPT !.up[c] = 0, !.inner[c] = 0]
    [] c \in Managed ->
         LET s2 == IF s.inner[c] # 0 THEN StopObs(s, s.inner[c]) ELSE s
         IN Release([s2 EXCEPT !.inner[c] = 0,
                               !.trail = Append(@, Step("letgo", c, s2))], c)
    [] c \in Combined -> Unbind(s, c)
    [] OTHER -> s

\* a refCount Varying that never hears of anything
CountNothing(s, c) == s

\* Varying#refCount: the refCount Varying of c is set to the number of
\* reactions on c whenever a reaction on c is made or stopped.
Count(s, c) ==
  LET counters == {n \in Counters : Counted(n) = c}
  IN IF counters = {} THEN s
     ELSE SetValue(s, CHOOSE n \in counters : TRUE, Num(s.refs[c]))

\* a mapped Varying that takes the mapped result and pushes it on without
\* comparing it with the value it holds
MapCallbackForces(s, d, x) ==
  LET r == MapFn(d, x)
      g == s.gen[d] + 1
      s1 == [s EXCEPT !.calls[d] = @ + 1, !.val[d] = r, !.gen[d] = g]
  IN Propagate(s1, d, g, Snapshot(s1, d), 1)

\* a flatMapped Varying that lets go of the Varying it tracked only when
\* another Varying comes through
MapCallbackStopsForVaryings(s, d, x) ==
  LET s1 == [s EXCEPT !.calls[d] = @ + 1]
      r == MapFn(d, x)
      s2 == IF s1.inner[d] # 0
            THEN [StopObs(s1, s1.inner[d]) EXCEPT !.inner[d] = 0]
            ELSE s1
  IN IF Flattens(d) /\ IsRef(r)
     THEN React(s2, r.c, "inner", TRUE, d)
     ELSE SetValue(s1, d, r)

\* a flatMapped Varying that keeps reacting on the Varying it tracked
MapCallbackKeepsInner(s, d, x) ==
  LET s1 == [s EXCEPT !.calls[d] = @ + 1]
      r == MapFn(d, x)
  IN IF Flattens(d) /\ IsRef(r)
     THEN React(s1, r.c, "inner", TRUE, d)
     ELSE SetValue(s1, d, r)

\* The reaction of a mapped Varying d on its source: map the value and
\* apply it to d; a flatMapped d that sees a Varying come through stops
\* reacting on the Varying it tracked before and reacts on the new one.
MapCallback(s, d, x) ==
  LET s1 == [s EXCEPT !.calls[d] = @ + 1]
      r == MapFn(d, x)
      s2 == IF s1.inner[d] # 0
            THEN [StopObs(s1, s1.inner[d]) EXCEPT !.inner[d] = 0]
            ELSE s1
  IN IF Flattens(d) /\ IsRef(r)
     THEN React(s2, r.c, "inner", TRUE, d)
     ELSE SetValue(s2, d, r)

\* One call of the callback of reaction o with value x.
Invoke(s, o, x, g, direct) ==
  LET c == s.ob[o].cell
      kind == s.ob[o].kind
      s1 == [s EXCEPT !.log = Append(@, [o |-> o, c |-> c, v |-> x, g |-> g,
                                          now |-> s.gen[c], direct |-> direct])]
  IN CASE kind = "push" -> s1
       [] kind = "round" -> SetValue(s1, c, Round(x))
       [] kind = "stopSelf" -> StopObs(s1, o)
       [] kind = "prime" -> (IF x.n > 0 THEN SetValue(s1, Counted(c), Num(Answer)) ELSE s1)
       [] kind = "map" -> MapCallback(s1, s.ob[o].owner, x)
       [] kind = "inner" -> SetValue(s1, s.ob[o].owner, x)
       [] kind = "part" -> Recompute(s1, s.ob[o].owner)
       [] kind = "fault" -> [s1 EXCEPT !.fault = TRUE]
       [] kind = "stopNext" -> (IF o < Len(s1.ob) /\ s1.ob[o + 1].cell = c
                               THEN StopObs(s1, o + 1) ELSE s1)
       [] kind = "more" -> React(s1, c, "late", FALSE, "")
       [] kind = "late" -> s1

\* react that calls the callback right away whatever immediate says
ReactAlwaysCalls(s, c, kind, immediate, owner) ==
  LET id == Len(s.ob) + 1
      s0 == [s EXCEPT
               !.ob = Append(@, [cell |-> c, kind |-> kind, immediate |-> immediate,
                                 stopped |-> FALSE, owner |-> owner]),
               !.refs[c] = @ + 1,
               !.up = IF kind = "map" THEN [@ EXCEPT ![owner] = id] ELSE @,
               !.inner = IF kind = "inner" THEN [@ EXCEPT ![owner] = id] ELSE @]
      s1 == Count(s0, c)
      s2 == IF s.refs[c] = 0 THEN Activate(s1, c) ELSE s1
      s3 == Invoke(s2, id, s2.val[c], s2.gen[c], TRUE)
  IN Register(s3, id)

\* react that never calls the callback with the present value
ReactNeverCalls(s, c, kind, immediate, owner) ==
  LET id == Len(s.ob) + 1
      s1 == [s EXCEPT
               !.ob = Append(@, [cell |-> c, kind |-> kind, immediate |-> immediate,
                                 stopped |-> FALSE, owner |-> owner]),
               !.refs[c] = @ + 1,
               !.up = IF kind = "map" THEN [@ EXCEPT ![owner] = id] ELSE @,
               !.inner = IF kind = "inner" THEN [@ EXCEPT ![owner] = id] ELSE @,
               !.obsv[c] = Append(@, id)]
      s2 == Count(s1, c)
  IN IF s.refs[c] = 0 THEN Activate(s2, c) ELSE s2

\* react that hands over the present value before refCount has heard
ReactCountsLate(s, c, kind, immediate, owner) ==
  LET id == Len(s.ob) + 1
      s0 == [s EXCEPT
               !.ob = Append(@, [cell |-> c, kind |-> kind, immediate |-> immediate,
                                 stopped |-> FALSE, owner |-> owner]),
               !.refs[c] = @ + 1,
               !.up = IF kind = "map" THEN [@ EXCEPT ![owner] = id] ELSE @,
               !.inner = IF kind = "inner" THEN [@ EXCEPT ![owner] = id] ELSE @]
      s2 == IF s.refs[c] = 0 THEN Activate(s0, c) ELSE s0
      s3 == IF immediate THEN Invoke(s2, id, s2.val[c], s2.gen[c], TRUE) ELSE s2
  IN Register(Count(s3, c), id)

\* react that has the Varying start its work over for every reaction
ReactActivatesEach(s, c, kind, immediate, owner) ==
  LET id == Len(s.ob) + 1
      s0 == [s EXCEPT
               !.ob = Append(@, [cell |-> c, kind |-> kind, immediate |-> immediate,
                                 stopped |-> FALSE, owner |-> owner]),
               !.refs[c] = @ + 1,
               !.up = IF kind = "map" THEN [@ EXCEPT ![owner] = id] ELSE @,
               !.inner = IF kind = "inner" THEN [@ EXCEPT ![owner] = id] ELSE @]
      s2 == Activate(Count(s0, c), c)
      s3 == IF immediate /\ ~Unwinding(s2)
            THEN Invoke(s2, id, s2.val[c], s2.gen[c], TRUE)
            ELSE s2
  IN IF Unwinding(s3) THEN s3 ELSE Register(s3, id)

\* react that puts the reaction on the list before it calls the callback
ReactRegistersFirst(s, c, kind, immediate, owner) ==
  LET id == Len(s.ob) + 1
      s0 == [s EXCEPT
               !.ob = Append(@, [cell |-> c, kind |-> kind, immediate |-> immediate,
                                 stopped |-> FALSE, owner |-> owner]),
               !.refs[c] = @ + 1,
               !.up = IF kind = "map" THEN [@ EXCEPT ![owner] = id] ELSE @,
               !.inner = IF kind = "inner" THEN [@ EXCEPT ![owner] = id] ELSE @]
      s1 == Count(s0, c)
      s2 == Register(IF s.refs[c] = 0 THEN Activate(s1, c) ELSE s1, id)
  IN IF immediate /\ ~Unwinding(s2)
     THEN Invoke(s2, id, s2.val[c], s2.gen[c], TRUE)
     ELSE s2

\* Varying#react: an Observation is created and refCount hears of it; a
\* Varying gaining its first reaction starts the work it does for them; then,
\* with immediate, the callback is called right away with the current
\* value; then the reaction joins the list.  (A callback that throws on the
\* way ends the call there.)
React(s, c, kind, immediate, owner) ==
  LET id == Len(s.ob) + 1
      s0 == [s EXCEPT
               !.ob = Append(@, [cell |-> c, kind |-> kind, immediate |-> immediate,
                                 stopped |-> FALSE, owner |-> owner]),
               !.refs[c] = @ + 1,
               !.up = IF kind = "map" THEN [@ EXCEPT ![owner] = id] ELSE @,
               !.inner = IF kind = "inner" THEN [@ EXCEPT ![owner] = id] ELSE @]
      s1 == Count(s0, c)
      s2 == IF s.refs[c] = 0 THEN Activate(s1, c) ELSE s1
      s3 == IF immediate /\ ~Unwinding(s2)
            THEN Invoke(s2, id, s2.val[c], s2.gen[c], TRUE)
            ELSE s2
  IN IF Unwinding(s3) THEN s3 ELSE Register(s3, id)

\* get that has a mapped Varying nobody reacts on start reacting on its
\* source
GetValueReacts(s, c) ==
  IF c \in Combined /\ s.refs[c] = 0
  THEN LET s1 == [s EXCEPT !.calls[c] = @ + 1]
       IN [s |-> s1, v |-> Fn(c, Tuple(s1, c))]
  ELSE IF c \notin Derived \/ s.up[c] # 0 THEN [s |-> s, v |-> s.val[c]]
  ELSE LET s1 == Activate(s, c)
       IN [s |-> s1, v |-> s1.val[c]]

\* get that flattens for as long as it finds a Varying
GetValueFlattensAll(s, c) ==
  IF c \in Combined /\ s.refs[c] = 0
  THEN LET s1 == [s EXCEPT !.calls[c] = @ + 1]
       IN [s |-> s1, v |-> Fn(c, Tuple(s1, c))]
  ELSE IF c \notin Derived \/ s.up[c] # 0
  THEN (IF Flattens(c) /\ IsRef(s.val[c]) THEN GetValue(s, s.val[c].c)
        ELSE [s |-> s, v |-> s.val[c]])
  ELSE LET r == GetValue(s, Source(c))
           m == MapFn(c, r.v)
           s1 == [r.s EXCEPT !.calls[c] = @ + 1]
           f == GetValue(s1, m.c)
       IN IF Flattens(c) /\ IsRef(m)
          THEN (IF IsRef(f.v) THEN GetValue(f.s, f.v.c) ELSE f)
          ELSE [s |-> s1, v |-> m]

\* get that answers with whatever the Varying holds, mapped or not
GetValueHeld(s, c) == [s |-> s, v |-> s.val[c]]

\* get on a managed Varying that leaves the resources it made in place
GetValueKeepsResources(s, c) ==
  IF c \in Managed /\ s.refs[c] = 0
  THEN LET s1 == Create(s, c)
       IN [s |-> [s1 EXCEPT !.trail = Append(@, Step("compute", c, s1))],
           v |-> Compute(c).v]
  ELSE [s |-> s, v |-> s.val[c]]

\* Varying#get: the value held; a mapped Varying nobody reacts on answers
\* by mapping its source's value once (and flattening the result once),
\* keeping nothing, and a Varying made of several by applying its function
\* to their values; a managed Varying nobody reacts on creates its
\* resources, takes the value of the Varying its last function gives and
\* frees the resources again.
GetValue(s, c) ==
  IF c \in Managed /\ s.refs[c] = 0
  THEN LET s1 == Create(s, c)
           s2 == [s1 EXCEPT !.trail = Append(@, Step("compute", c, s1))]
       IN [s |-> Release(s2, c), v |-> Compute(c).v]
  ELSE IF c \in Combined /\ s.refs[c] = 0
  THEN LET s1 == [s EXCEPT !.calls[c] = @ + 1]
       IN [s |-> s1, v |-> Fn(c, Tuple(s1, c))]
  ELSE IF c \notin Derived \/ s.up[c] # 0 THEN [s |-> s, v |-> s.val[c]]
  ELSE LET r == GetValue(s, Source(c))
           m == MapFn(c, r.v)
           s1 == [r.s EXCEPT !.calls[c] = @ + 1]
       IN IF Flattens(c) /\ IsRef(m) THEN GetValue(s1, m.c)
          ELSE [s |-> s1, v |-> m]

-----------------------------------------------------------------------------
(* External calls *)

Commit(s) ==
  /\ val' = s.val /\ gen' = s.gen /\ obsv' = s.obsv /\ refs' = s.refs
  /\ ob' = s.ob /\ up' = s.up /\ inner' = s.inner /\ calls' = s.calls
  /\ log' = s.log /\ res' = s.res /\ trail' = s.trail /\ made' = s.made
  /\ thrown' = s.fault
  /\ stack' = stack
  /\ view' = view
  /\ article' = article

Called(op, c, v, o, flag) ==
  [op |-> op, c |-> c, v |-> v, o |-> o, flag |-> flag,
   pg |-> gen[c], pl |-> Len(log)]

External == {o \in 1..Len(ob) : ob[o].owner = ""}

\* v.set(x) by the program
SetAct(c, x) ==
  /\ budget > 0 \/ x = val[c]
  /\ Commit(SetValue(State, c, x))
  /\ budget' = IF x = val[c] THEN budget ELSE budget - 1
  /\ last' = Called("set", c, x, 0, x = val[c])
  /\ UNCHANGED <<touched, halted>>

\* v.react(immediate, callback) by the program
ReactAct(c, kind, immediate) ==
  /\ budget > 0
  /\ budget' = budget - 1
  /\ Commit(React(State, c, kind, immediate, ""))
  /\ last' = Called("react", c, GetValue(State, c).v, Len(ob) + 1, immediate)
  /\ touched' = [d \in Derived |-> touched[d] \/ c \in Dependants(d)]
  /\ UNCHANGED halted

\* observation.stop() by the program
StopAct(o) ==
  /\ Commit(StopObs(State, o))
  /\ last' = Called("stop", ob[o].cell, val[ob[o].cell], o, o \in halted)
  /\ halted' = halted \cup {o}
  /\ UNCHANGED <<touched, budget>>

\* v.get() by the program
GetAct(c) ==
  /\ budget > 0 \/ up[c] # 0
  /\ budget' = IF up[c] # 0 THEN budget ELSE budget - 1
  /\ LET r == GetValue(State, c)
     IN /\ Commit(r.s)
        /\ last' = Called("get", c, r.v, 0, up[c] # 0)
  /\ touched' = [d \in Derived |-> touched[d] \/ c \in Dependants(d)]
  /\ UNCHANGED halted

\* c.get() by the program, on a Varying of any kind
GetAny(c) ==
  /\ budget > 0
  /\ budget' = budget - 1
  /\ LET r == GetValue(State, c)
     IN /\ Commit(r.s)
        /\ last' = Called("get", c, r.v, 0, refs[c] > 0)
  /\ touched' = [d \in Derived |-> touched[d] \/ c \in Dependants(d)]
  /\ UNCHANGED halted

\* The four ways the samples put x and y together, in the samples' order:
\* mapAll, all followed by map, lift, and all reacted on as it is.
Forms == <<"z", "xym", "zl", "xy">>

\* The program's Observations on c, in the order they were made.
Ext(c) ==
  SelectSeq([i \in 1..Len(ob) |-> i], LAMBDA o : ob[o].cell = c /\ ob[o].owner = "")

RECURSIVE ReactOnEach(_, _, _), StopOnEach(_, _, _), GetOnEach(_, _)
ReactOnEach(s, immediate, i) ==
  IF i > Len(Forms) THEN s
  ELSE ReactOnEach(React(s, Forms[i], "push", immediate, ""), immediate, i + 1)

StopOnEach(s, k, i) ==
  IF i > Len(Forms) THEN s
  ELSE StopOnEach(StopObs(s, Ext(Forms[i])[k]), k, i + 1)

GetOnEach(s, i) ==
  IF i > Len(Forms) THEN s
  ELSE GetOnEach(GetValue(s, Forms[i]).s, i + 1)

\* The same react call made in each of the four samples.
ReactEach(immediate) ==
  /\ budget > 0
  /\ budget' = budget - 1
  /\ Commit(ReactOnEach(State, immediate, 1))
  /\ last' = Called("react", Forms[1], GetValue(State, Forms[1]).v, Len(ob) + 1, immediate)
  /\ touched' = [d \in Derived |-> touched[d] \/ d = "xym"]
  /\ UNCHANGED halted

\* The same stop call made in each of the four samples, on the
\* Observation the k-th react call returned.
StopEach(k) ==
  /\ Commit(StopOnEach(State, k, 1))
  /\ last' = Called("stop", Forms[1], val[Forms[1]], Ext(Forms[1])[k], FALSE)
  /\ halted' = halted \cup {Ext(Forms[i])[k] : i \in 1..Len(Forms)}
  /\ UNCHANGED <<touched, budget>>

\* The same get call made in each of the four samples.
GetEach ==
  /\ budget > 0
  /\ budget' = budget - 1
  /\ Commit(GetOnEach(State, 1))
  /\ last' = Called("get", Forms[1], GetValue(State, Forms[1]).v, 0, refs[Forms[1]] > 0)
  /\ touched' = [d \in Derived |-> touched[d] \/ d = "xym"]
  /\ UNCHANGED halted

\* The same mapping function given to map (b) and to flatMap (fb).
Twins == <<"b", "fb">>

\* The same react call made on b and on fb.
ReactTwins(immediate) ==
  /\ budget > 0
  /\ budget' = budget - 1
  /\ Commit(React(React(State, Twins[1], "push", immediate, ""),
                  Twins[2], "push", immediate, ""))
  /\ last' = Called("react", Twins[1], GetValue(State, Twins[1]).v, Len(ob) + 1, immediate)
  /\ touched' = [d \in Derived |-> touched[d] \/ d \in {Twins[1], Twins[2]}]
  /\ UNCHANGED halted

\* The same stop call made on the Observations the k-th react calls on b
\* and on fb returned.
StopTwins(k) ==
  /\ Commit(StopObs(StopObs(State, Ext(Twins[1])[k]), Ext(Twins[2])[k]))
  /\ last' = Called("stop", Twins[1], val[Twins[1]], Ext(Twins[1])[k], FALSE)
  /\ halted' = halted \cup {Ext(Twins[1])[k], Ext(Twins[2])[k]}
  /\ UNCHANGED <<touched, budget>>

\* What the program can hand to the constructor and to Varying.of: a
\* plain value or a Varying constructed before.
OfVals == {Num(15), Num(16)}
Given == OfVals \cup {Ref(Pool[i]) : i \in 1..made}

\* One way of creating a Varying called by the program; way "ofof" is
\* Varying.of(Varying.of(x)).  The record of the call keeps the argument, the
\* Varying handed back, the number constructed before the call and before
\* its last Varying.of, and whether that last Varying.of handed back what
\* it was given.
Construct(way, x) ==
  LET r1 == IF way = "new" THEN New(State, x) ELSE Of(State, x)
      r2 == IF way = "ofof" THEN Of(r1.s, r1.v) ELSE r1
      before == IF way = "ofof" THEN r1.s.made ELSE made
      given == IF way = "ofof" THEN r1.v ELSE x
  IN /\ budget > 0
     /\ budget' = budget - 1
     /\ Commit(r2.s)
     /\ last' = [op |-> way, c |-> r2.v.c, v |-> x, o |-> 0, flag |-> r2.v = given,
                 pg |-> made, pl |-> before]
     /\ UNCHANGED <<touched, halted>>

-----------------------------------------------------------------------------
(* Specifications *)

\* The classes of the <code> of a <pre>: none, the languages the script
\* knows, any other language, a class that names no language, and what
\* prop('class') gives for a <pre> that has no <code> in it.
Classes ==
  {"", "language-noexec", "language-manual-require", "language-html",
   "language-env", "plain", "undefined"}

\* A top-level element of the document: a <pre> whose <code> has the class
\* given and the text numbered n, any other element, the marker of a sample.
Pre(class, n) == [tag |-> "pre", class |-> class, text |-> n, id |-> -1]
Other(n) == [tag |-> "p", class |-> "", text |-> n, id |-> -1]
Marker(id) == [tag |-> "div", class |-> "", text |-> 0, id |-> id]

\* The document whose top-level elements are of the kinds k (the class of
\* a <pre>, or "p"), their texts numbered in document order.
Doc(k) ==
  [i \in DOMAIN k |-> IF k[i] = "p" THEN Other(i) ELSE Pre(k[i], i)]

\* The script before it has read its input.
Unread ==
  [pc |-> "start", isApiRef |-> FALSE, source |-> <<>>, dom |-> <<>>,
   samples |-> <<>>]

\* A text is the sequence of its lines and line ends.
Texts ==
  {<<>>, <<"a">>, <<"!">>, <<"a", "LF", "b">>, <<"a", "CRLF", "b">>}

\* The text a reaction of the program's refuses: its callback throws.
Bad == <<"!">>

\* CodeMirror splits the text it is given at CRLF, CR and LF and joins the
\* lines with LF when it is asked for its value.
Norm(t) == [i \in 1..Len(t) |-> IF t[i] = "CRLF" THEN "LF" ELSE t[i]]

\* What the user can make the editor hold.
Typed == {Norm(t) : t \in Texts}

\* The view after _render and _wireEvents: the editor holds the value of
\* the subject, _lock has never been assigned, and the reaction of the
\* view is the only one on the subject's value.
Rendered ==
  [subject |-> <<>>, gen |-> 0, cm |-> <<>>, lock |-> "undefined",
   watchers |-> <<"view">>, writes |-> 0, seen |-> <<>>, fault |-> FALSE,
   did |-> "render", arg |-> <<>>]

InitVal(c) ==
  CASE c = "v" -> Num(4)
    [] c = "choose" -> Str("odds")
    [] c = "odds" -> Num(1)
    [] c = "evens" -> Num(2)
    [] c = "a" -> Num(4)
    [] c \in Managed -> Num(Result)
    [] c = "x" -> Num(3)
    [] c = "y" -> Num(6)
    [] c = "xy" -> Tup(<<Num(3), Num(6)>>, 0)
    [] c = "n2" -> Ref("odds")
    [] c = "n3" -> Ref("n2")
    [] OTHER -> Num(0)   \* w of the second refCount sample; wc: no reactions

Fresh ==
  /\ val = [c \in Cells |-> InitVal(c)]
  /\ gen = [c \in Cells |-> 0]
  /\ obsv = [c \in Cells |-> <<>>]
  /\ refs = [c \in Cells |-> 0]
  /\ ob = <<>>
  /\ up = [c \in Derived |-> 0]
  /\ inner = [c \in Derived \cup Managed |-> 0]
  /\ calls = [c \in Derived \cup Combined |-> 0]
  /\ touched = [c \in Derived |-> FALSE]
  /\ log = <<>>
  /\ res = <<>>
  /\ trail = <<>>
  /\ made = 0
  /\ thrown = FALSE
  /\ halted = {}
  /\ stack = <<>>
  /\ view = Rendered
  /\ article = Unread
  /\ last = [op |-> "init", c |-> "", v |-> Num(0), o |-> 0, flag |-> FALSE,
             pg |-> 0, pl |-> 0]

Init == Fresh /\ budget = MaxCellCalls

\* The program of the react, stop and coercion samples: one root Varying.
CellVals == {Num(4), Num(7), Num(8)}
CellKinds == {"push", "round", "stopSelf"}

Next ==
  \/ \E x \in CellVals : SetAct("v", x)
  \/ \E kind \in CellKinds, immediate \in BOOLEAN : ReactAct("v", kind, immediate)
  \/ \E o \in External : StopAct(o)

Spec == Init /\ [][Next]_vars

\* The program of the flatMap sample: choose, odds, evens and the
\* flatMapped d.
ChooseVals == {Str("odds"), Str("evens")}
OddVals == {Num(1), Num(3)}
EvenVals == {Num(2), Num(4)}

\* (The calls that change nothing, a set of the value held and a stop of a
\* stopped Observation, are the subject of Spec; here every set is of a new
\* value and every stop of a live Observation.)
NextFlat ==
  \/ \E x \in ChooseVals \ {val["choose"]} : SetAct("choose", x)
  \/ \E x \in OddVals \ {val["odds"]} : SetAct("odds", x)
  \/ \E x \in EvenVals \ {val["evens"]} : SetAct("evens", x)
  \/ \E immediate \in BOOLEAN : ReactAct("d", "push", immediate)
  \/ \E o \in External \ halted : StopAct(o)

InitFlat == Fresh /\ budget = MaxFlatCalls

SpecFlat == InitFlat /\ [][NextFlat]_vars

\* The program of the lazy map samples: a, b = a.map(..), b2 = b.map(..).
MapVals == {Num(4), Num(5), Num(6)}

NextMap ==
  \/ \E x \in MapVals \ {val["a"]} : SetAct("a", x)
  \/ \E c \in {"a", "b", "b2"}, immediate \in BOOLEAN : ReactAct(c, "push", immediate)
  \/ \E o \in External \ halted : StopAct(o)
  \/ \E c \in {"b", "b2"} : GetAct(c)

InitMap == Fresh /\ budget = MaxMapCalls

SpecMap == InitMap /\ [][NextMap]_vars

\* The programs of the map and the flatMap samples side by side, with
\* reactions on the mapped Varyings only.
NextDerived ==
  \/ \E x \in MapVals \ {val["a"]} : SetAct("a", x)
  \/ \E x \in ChooseVals \ {val["choose"]} : SetAct("choose", x)
  \/ \E x \in OddVals \ {val["odds"]} : SetAct("odds", x)
  \/ \E x \in EvenVals \ {val["evens"]} : SetAct("evens", x)
  \/ \E c \in {"d", "b", "b2"}, immediate \in BOOLEAN : ReactAct(c, "push", immediate)
  \/ \E o \in External \ halted : StopAct(o)
  \/ \E c \in {"d", "b", "b2"} : GetAct(c)

InitDerived == Fresh /\ budget = MaxDerivedCalls

SpecDerived == InitDerived /\ [][NextDerived]_vars

\* The program of the refCount samples: w and wc = w.refCount(); reactions
\* that record, on either; reactions on wc that set w to the answer as soon
\* as the count is positive.
CountVals == {Num(0), Num(7)}

NextCount ==
  \/ \E x \in CountVals \ {val["w"]} : SetAct("w", x)
  \/ \E kind \in {"push", "stopSelf"}, immediate \in BOOLEAN : ReactAct("w", kind, immediate)
  \/ \E kind \in {"push", "prime"}, immediate \in BOOLEAN : ReactAct("wc", kind, immediate)
  \/ \E o \in External \ halted : StopAct(o)

InitCount == Fresh /\ budget = MaxCountCalls

SpecCount == InitCount /\ [][NextCount]_vars

\* The program of the managed sample: reactions on m are made and stopped.
NextManaged ==
  \/ \E kind \in {"push", "stopSelf"}, immediate \in BOOLEAN : ReactAct("m", kind, immediate)
  \/ \E o \in External : StopAct(o)

InitManaged == Fresh /\ budget = MaxManagedCalls

SpecManaged == InitManaged /\ [][NextManaged]_vars

\* The program of the managed sample with a resource whose destroy()
\* throws: reactions on mf are made and stopped.
NextRelease ==
  \/ \E kind \in {"push", "stopSelf"}, immediate \in BOOLEAN : ReactAct("mf", kind, immediate)
  \/ \E o \in External : StopAct(o)

InitRelease == Fresh /\ budget = MaxReleaseCalls

SpecRelease == InitRelease /\ [][NextRelease]_vars

\* The program of the samples on several Varyings: the four samples are
\* run side by side on the same x and y, each given the same calls.
XVals == {Num(3), Num(5), Num(0)}
YVals == {Num(6), Num(1)}

NextAll ==
  \/ \E v \in XVals \ {val["x"]} : SetAct("x", v)
  \/ \E v \in YVals \ {val["y"]} : SetAct("y", v)
  \/ \E immediate \in BOOLEAN : ReactEach(immediate)
  \/ \E k \in 1..Len(Ext(Forms[1])) : Ext(Forms[1])[k] \notin halted /\ StopEach(k)
  \/ GetEach

InitAll == Fresh /\ budget = MaxAllCalls

SpecAll == InitAll /\ [][NextAll]_vars

\* The programs of the get samples: get is called on a plain Varying, on a
\* mapped, on a flatMapped and on a mapAll one, whether or not they are
\* reacted on.
NextGet ==
  \/ \E x \in MapVals \ {val["a"]} : SetAct("a", x)
  \/ \E x \in ChooseVals \ {val["choose"]} : SetAct("choose", x)
  \/ \E x \in OddVals \ {val["odds"]} : SetAct("odds", x)
  \/ \E v \in XVals \ {val["x"]} : SetAct("x", v)
  \/ \E c \in {"b", "d", "z"} : ReactAct(c, "push", TRUE)
  \/ \E o \in External \ halted : StopAct(o)
  \/ \E c \in {"a", "b", "d", "z"} : GetAny(c)

InitGet == Fresh /\ budget = MaxGetCalls

SpecGet == InitGet /\ [][NextGet]_vars

\* The program of the coercion sample with get: reactions on v that round
\* it or record, sets of v, stops and gets.
NextGen ==
  \/ \E x \in CellVals : SetAct("v", x)
  \/ \E kind \in {"push", "round"}, immediate \in BOOLEAN : ReactAct("v", kind, immediate)
  \/ \E o \in External : StopAct(o)
  \/ GetAny("v")

InitGen == Fresh /\ budget = MaxGenCalls

SpecGen == InitGen /\ [][NextGen]_vars

\* The program of the react and stop samples with callbacks that stop the
\* reaction registered after their own or make a new reaction on v.
WaveVals == {Num(4), Num(7)}
WaveKinds == {"push", "stopNext", "more"}

NextWave ==
  \/ \E x \in WaveVals \ {val["v"]} : SetAct("v", x)
  \/ \E kind \in WaveKinds : ReactAct("v", kind, FALSE)
  \/ \E o \in External \ halted : StopAct(o)

InitWave == Fresh /\ budget = MaxWaveCalls

SpecWave == InitWave /\ [][NextWave]_vars

\* The program of the notes on flattening: a Varying of a Varying of a
\* Varying flattened once and twice, and a plain mapping given to flatMap
\* next to the same mapping given to map.
NestVals == {Ref("odds"), Ref("evens")}

NextFlatten ==
  \/ \E x \in OddVals \ {val["odds"]} : SetAct("odds", x)
  \/ \E x \in NestVals \ {val["n2"]} : SetAct("n2", x)
  \/ \E x \in MapVals \ {val["a"]} : SetAct("a", x)
  \/ \E c \in {"f1", "f2"} : ReactAct(c, "push", TRUE)
  \/ ReactTwins(TRUE)
  \/ \E o \in External \ halted : ob[o].cell \in {"f1", "f2"} /\ StopAct(o)
  \/ \E k \in 1..Len(Ext(Twins[1])) : Ext(Twins[1])[k] \notin halted /\ StopTwins(k)

InitFlatten == Fresh /\ budget = MaxFlattenCalls

SpecFlatten == InitFlatten /\ [][NextFlatten]_vars

\* The program of the map sample with a mapping under which values of a
\* collide: h = a.map(x => x % 2).
NextGate ==
  \/ \E x \in MapVals \ {val["a"]} : SetAct("a", x)
  \/ \E immediate \in BOOLEAN : ReactAct("h", "push", immediate)
  \/ \E o \in External \ halted : StopAct(o)
  \/ GetAny("h")

InitGate == Fresh /\ budget = MaxGateCalls

SpecGate == InitGate /\ [][NextGate]_vars

\* The program of the flatMap sample with a function that gives a Varying
\* for one value of choose and a plain value for the other:
\* e = choose.flatMap(which => which === 'odds' ? odds : 0).
NextPlain ==
  \/ \E x \in ChooseVals \ {val["choose"]} : SetAct("choose", x)
  \/ \E x \in OddVals \ {val["odds"]} : SetAct("odds", x)
  \/ \E immediate \in BOOLEAN : ReactAct("e", "push", immediate)
  \/ \E o \in External \ halted : StopAct(o)
  \/ GetAny("e")

InitPlain == Fresh /\ budget = MaxPlainCalls

SpecPlain == InitPlain /\ [][NextPlain]_vars

\* The program of the managed sample with get: m is asked for its value
\* whether or not somebody reacts on it.
NextLend ==
  \/ \E immediate \in BOOLEAN : ReactAct("m", "push", immediate)
  \/ \E o \in External \ halted : StopAct(o)
  \/ GetAny("m")

InitLend == Fresh /\ budget = MaxLendCalls

SpecLend == InitLend /\ [][NextLend]_vars

-----------------------------------------------------------------------------
(* The coercion sample call by call: what happens between a call of set   *)
(* or react on v and its return, one callback at a time.                   *)

\* x => v.set(x + 1)
Bump(x) == Num(x.n + Halves)

\* The callbacks that set the Varying they react on, and what they set it
\* to when they are called with x.
Sets(kind) == kind \in {"round", "bump"}
Coerced(kind, x) == IF kind = "round" THEN Round(x) ELSE Bump(x)

\* A call of set that is going through the reactions it must call, and a
\* call of react whose new reaction has yet to join the list.
Wave(g, snap) == [op |-> "set", g |-> g, snap |-> snap, i |-> 1, o |-> 0]
Pending(o) == [op |-> "react", g |-> 0, snap |-> <<>>, i |-> 1, o |-> o]

Top == stack[Len(stack)]
Under == SubSeq(stack, 1, Len(stack) - 1)

\* set that pushes the value out whether or not it is the extant one
BeginAlways(x, under) ==
  /\ Len(under) < MaxStack
  /\ val' = [val EXCEPT !["v"] = x]
  /\ gen' = [gen EXCEPT !["v"] = @ + 1]
  /\ stack' = Append(under, Wave(gen["v"] + 1, obsv["v"]))

\* v.set(x) is called with the calls under in progress: nothing happens
\* when x is the extant value; otherwise v takes it and knows which
\* reactions it must call.
Begin(x, under) ==
  IF x = val["v"]
  THEN /\ stack' = under
       /\ UNCHANGED <<val, gen>>
  ELSE /\ Len(under) < MaxStack
       /\ val' = [val EXCEPT !["v"] = x]
       /\ gen' = [gen EXCEPT !["v"] = @ + 1]
       /\ stack' = Append(under, Wave(gen["v"] + 1, obsv["v"]))

\* The callback of reaction o is called with the present value.
Handed(o, direct) ==
  Append(log, [o |-> o, c |-> "v", v |-> val["v"], g |-> gen["v"],
               now |-> gen["v"], direct |-> direct])

\* The program calls v.set(x).
CallSet(x) ==
  /\ stack = <<>> /\ budget > 0
  /\ budget' = budget - 1
  /\ Begin(x, <<>>)
  /\ last' = Called("set", "v", x, 0, x = val["v"])
  /\ UNCHANGED <<obsv, refs, ob, up, inner, calls, touched, log, res, trail,
                 made, thrown, halted, view, article>>

\* The program calls v.react(immediate, callback): with immediate the
\* callback is called with the present value before the reaction joins
\* the list.
CallReact(kind, immediate) ==
  LET id == Len(ob) + 1
  IN /\ stack = <<>> /\ budget > 0
     /\ budget' = budget - 1
     /\ ob' = Append(ob, [cell |-> "v", kind |-> kind, immediate |-> immediate,
                          stopped |-> FALSE, owner |-> ""])
     /\ refs' = [refs EXCEPT !["v"] = @ + 1]
     /\ last' = Called("react", "v", val["v"], id, immediate)
     /\ IF ~immediate
        THEN /\ obsv' = [obsv EXCEPT !["v"] = Append(@, id)]
             /\ UNCHANGED <<val, gen, log, stack>>
        ELSE /\ log' = Handed(id, TRUE)
             /\ obsv' = obsv
             /\ IF Sets(kind)
                THEN Begin(Coerced(kind, val["v"]), <<Pending(id)>>)
                ELSE /\ stack' = <<Pending(id)>>
                     /\ UNCHANGED <<val, gen>>
     /\ UNCHANGED <<up, inner, calls, touched, res, trail, made, thrown, halted,
                    view, article>>

\* The program calls stop() on one of its reactions.
CallStop(o) ==
  /\ stack = <<>> /\ budget > 0
  /\ budget' = budget - 1
  /\ ob' = [ob EXCEPT ![o].stopped = TRUE]
  /\ obsv' = [obsv EXCEPT !["v"] = Without(@, o)]
  /\ refs' = [refs EXCEPT !["v"] = @ - 1]
  /\ halted' = halted \cup {o}
  /\ last' = Called("stop", "v", val["v"], o, FALSE)
  /\ UNCHANGED <<val, gen, up, inner, calls, touched, log, res, trail, made,
                 thrown, stack, view, article>>

\* The call of set on top turns to the next reaction it must call: it
\* bails out if v has moved on to a newer generation, and otherwise calls
\* the callback, which may call set in its turn.
Deliver ==
  /\ stack # <<>> /\ Top.op = "set" /\ Top.i <= Len(Top.snap)
  /\ LET o == Top.snap[Top.i]
         on == Append(Under, [Top EXCEPT !.i = @ + 1])
     IN IF gen["v"] # Top.g
        THEN /\ stack' = Under
             /\ UNCHANGED <<val, gen, log>>
        ELSE IF ob[o].stopped
        THEN /\ stack' = on
             /\ UNCHANGED <<val, gen, log>>
        ELSE /\ log' = Handed(o, FALSE)
             /\ IF Sets(ob[o].kind)
                THEN Begin(Coerced(ob[o].kind, val["v"]), on)
                ELSE /\ stack' = on
                     /\ UNCHANGED <<val, gen>>
  /\ UNCHANGED <<obsv, refs, ob, up, inner, calls, touched, res, trail, made,
                 thrown, halted, budget, last, view, article>>

\* The call on top returns: a set that has called all its reactions, or a
\* react whose callback has returned and whose reaction now joins the list.
Return ==
  /\ stack # <<>>
  /\ \/ /\ Top.op = "set" /\ Top.i > Len(Top.snap)
        /\ obsv' = obsv
     \/ /\ Top.op = "react"
        /\ obsv' = [obsv EXCEPT !["v"] = Append(@, Top.o)]
  /\ stack' = Under
  /\ UNCHANGED <<val, gen, refs, ob, up, inner, calls, touched, log, res, trail,
                 made, thrown, halted, budget, last, view, article>>

\* Everything runs on one stack: a call in progress carries on.
Run == Deliver \/ Return

NextCascade ==
  \/ \E x \in CellVals \ {val["v"]} : CallSet(x)
  \/ \E kind \in {"push", "round", "bump"}, immediate \in BOOLEAN :
       CallReact(kind, immediate)
  \/ \E o \in External \ halted : CallStop(o)
  \/ Deliver
  \/ Return

InitCascade == Fresh /\ budget = MaxCascadeCalls

SpecCascade == InitCascade /\ [][NextCascade]_vars /\ WF_vars(Run)

-----------------------------------------------------------------------------
(* EditorView: a CodeMirror editor bound both ways to the value of its     *)
(* subject.  Each operation takes the view e and gives it as it is when    *)
(* the call has returned, nested calls included.                           *)

RECURSIVE SubjectSet(_, _), Tell(_, _, _, _), Reaction(_, _), CmSetValue(_, _)
RECURSIVE Change(_)

\* _wireEvents, the handler of CodeMirror's change event: the lock is
\* taken, the subject is set to the editor's value, the lock is given
\* back; a setValue that throws leaves the handler there and then.
Change(e) ==
  LET e1 == [e EXCEPT !.lock = "true"]
      e2 == SubjectSet(e1, e1.cm)
  IN IF e2.fault THEN e2 ELSE [e2 EXCEPT !.lock = "false"]

\* _cm.setValue(value): the editor takes the text and its change event
\* fires before the call returns.
CmSetValue(e, value) ==
  Change([e EXCEPT !.cm = Norm(value), !.writes = @ + 1])

\* _render, the reaction on the subject's value: the value is written to
\* the editor unless the lock is held.
Reaction(e, value) ==
  IF e.lock # "true" THEN CmSetValue(e, value) ELSE e

\* The reactions on the subject's value are called with it, from the i-th
\* of snap on, first-registered first, for as long as the value is of
\* generation g and nothing has thrown.
Tell(e, g, snap, i) ==
  IF i > Len(snap) \/ e.fault \/ e.gen # g THEN e
  ELSE LET e1 == [e EXCEPT !.seen = Append(@, e.subject)]
       IN Tell(CASE snap[i] = "view" -> Reaction(e, e.subject)
                 [] snap[i] = "picky" ->
                      [e1 EXCEPT !.fault = (e.subject = Bad)]
                 [] OTHER -> e1,
               g, snap, i + 1)

\* subject.setValue(x): nothing happens if the subject holds x already.
SubjectSet(e, x) ==
  IF x = e.subject THEN e
  ELSE Tell([e EXCEPT !.subject = x, !.gen = @ + 1], e.gen + 1, e.watchers, 1)

\* One call from outside has returned: what it was, and whether it threw.
Outcome(e, did, arg) ==
  /\ view' = [e EXCEPT !.fault = FALSE, !.did = did, !.arg = arg]
  /\ thrown' = e.fault
  /\ budget > 0
  /\ budget' = budget - 1
  /\ UNCHANGED <<val, gen, obsv, refs, ob, up, inner, calls, touched, log, res,
                 trail, made, halted, last, stack, article>>

\* The user edits the text in the editor.
Type(t) == Outcome(Change([view EXCEPT !.cm = t]), "type", t)

\* The program sets the value of the subject.
SetSubject(x) == Outcome(SubjectSet(view, x), "set", x)

\* The program reacts on the value of the subject.
Watch(kind) ==
  Outcome([view EXCEPT !.watchers = Append(@, kind)], "watch", <<>>)

NextEditor ==
  \/ \E t \in Typed \ {view.cm} : Type(t)
  \/ \E x \in Texts \ {view.subject} : SetSubject(x)
  \/ \E kind \in {"push", "picky"} : Watch(kind)

InitEditor == Fresh /\ budget = MaxEditorCalls

SpecEditor == InitEditor /\ [][NextEditor]_vars

-----------------------------------------------------------------------------
(* article-to-json: the extraction of the code samples of a document.      *)

\* /^$|^language-(.*)$/.exec(class): the match, and what it captures
\* (nothing for a class that is empty).
Matches(class) ==
  class \in {"", "language-noexec", "language-manual-require",
             "language-html", "language-env"}
Subtype(class) ==
  CASE class = "language-noexec" -> "noexec"
    [] class = "language-manual-require" -> "manual-require"
    [] class = "language-html" -> "html"
    [] class = "language-env" -> "env"
    [] OTHER -> ""

\* const sample = { id }: the properties not assigned yet are absent.
Sample(id) ==
  [id |-> id, inspect |-> FALSE, noexec |-> FALSE, manualRequire |-> FALSE,
   language |-> "", main |-> 0, env |-> 0, of |-> <<>>]

\* The first top-level <pre> of the document, 0 if there is none.
FirstPre(dom) ==
  IF \E i \in 1..Len(dom) : dom[i].tag = "pre"
  THEN CHOOSE i \in 1..Len(dom) :
         dom[i].tag = "pre" /\ \A j \in 1..i - 1 : dom[j].tag # "pre"
  ELSE 0

\* The last of the contiguous <pre>s that begin at the i-th element.
RECURSIVE LastPre(_, _)
LastPre(dom, i) ==
  IF i < Len(dom) /\ dom[i + 1].tag = "pre" THEN LastPre(dom, i + 1) ELSE i

\* The <pre>s from the i-th on are converted into the sample; a class the
\* expression does not match leaves nothing to take the subtype from, and
\* the script throws.
RECURSIVE Convert(_, _, _, _)
Convert(sample, pres, i, inspect) ==
  IF i > Len(pres) THEN [s |-> sample, fault |-> FALSE]
  ELSE IF ~Matches(pres[i].class) THEN [s |-> sample, fault |-> TRUE]
  ELSE LET subtype == Subtype(pres[i].class)
           text == pres[i].text
           s0 == [sample EXCEPT !.inspect = @ \/ inspect,
                                !.of = Append(@, text)]
           s1 == CASE subtype = "noexec" ->
                        [s0 EXCEPT !.noexec = TRUE, !.main = text]
                   [] subtype = "manual-require" ->
                        [s0 EXCEPT !.manualRequire = TRUE, !.main = text]
                   [] subtype = "html" ->
                        [s0 EXCEPT !.noexec = TRUE, !.language = "xml",
                                   !.main = text]
                   [] subtype = "env" -> [s0 EXCEPT !.env = text]
                   [] OTHER -> [s0 EXCEPT !.main = text]
       IN Convert(s1, pres, i + 1, inspect)

\* The script reads a document and parses it.
Read(doc, api) ==
  /\ article.pc = "start"
  /\ article' = [pc |-> "loop", isApiRef |-> api, source |-> doc, dom |-> doc,
                 samples |-> <<>>]
  /\ UNCHANGED <<val, gen, obsv, refs, ob, up, inner, calls, touched, log, res,
                 trail, made, thrown, halted, budget, last, stack, view>>

\* One turn of the loop: the contiguous <pre>s that begin at the first
\* top-level <pre> become one sample, the first of them is replaced with
\* the marker of the sample and the others are removed.
Extract ==
  LET dom == article.dom
      first == FirstPre(dom)
      end == LastPre(dom, first)
      id == Len(article.samples)
      r == Convert(Sample(id), SubSeq(dom, first, end), 1, article.isApiRef)
  IN /\ article.pc = "loop"
     /\ first # 0
     /\ article' =
          IF r.fault THEN [article EXCEPT !.pc = "thrown"]
          ELSE [article EXCEPT
                  !.dom = SubSeq(dom, 1, first - 1) \o <<Marker(id)>>
                            \o SubSeq(dom, end + 1, Len(dom)),
                  !.samples = Append(@, r.s)]
     /\ thrown' = r.fault
     /\ UNCHANGED <<val, gen, obsv, refs, ob, up, inner, calls, touched, log, res,
                    trail, made, halted, budget, last, stack, view>>

\* No top-level <pre> is left: the loop ends and the article is written.
Export ==
  /\ article.pc = "loop"
  /\ FirstPre(article.dom) = 0
  /\ article' = [article EXCEPT !.pc = "done"]
  /\ UNCHANGED <<val, gen, obsv, refs, ob, up, inner, calls, touched, log, res,
                 trail, made, thrown, halted, budget, last, stack, view>>

NextArticle ==
  \/ \E n \in 0..MaxLen, api \in BOOLEAN :
       \E k \in [1..n -> Classes \cup {"p"}] : Read(Doc(k), api)
  \/ Extract
  \/ Export

InitArticle == Fresh /\ budget = 0

SpecArticle == InitArticle /\ [][NextArticle]_vars /\ WF_vars(NextArticle)

\* The program of the react samples with callbacks that throw: reactions on
\* v that record, that round v, and that throw whenever they are called.
FaultVals == {Num(4), Num(7), Num(8)}

NextFault ==
  \/ \E x \in FaultVals \ {val["v"]} : SetAct("v", x)
  \/ \E immediate \in BOOLEAN : ReactAct("v", "push", immediate)
  \/ \E kind \in {"round", "fault"} : ReactAct("v", kind, FALSE)
  \/ \E o \in External \ halted : StopAct(o)

InitFault == Fresh /\ budget = MaxFaultCalls

SpecFault == InitFault /\ [][NextFault]_vars

\* The program of the sample on creating Varyings.
NextOf ==
  \E way \in {"new", "of", "ofof"}, x \in Given : Construct(way, x)

InitOf == Fresh /\ budget = MaxOfCalls

SpecOf == InitOf /\ [][NextOf]_vars

-----------------------------------------------------------------------------
(* What a reaction has been handed *)

Entries(o) == SelectSeq(log, LAMBDA e : e.o = o)
Got(o) == [i \in 1..Len(Entries(o)) |-> Entries(o)[i].v]
Since(n) == SubSeq(log, n + 1, Len(log))
Live(c, kind) ==
  {o \in 1..Len(ob) : ob[o].cell = c /\ ob[o].kind = kind /\ ~ob[o].stopped}
EntriesIn(l, o) == SelectSeq(l, LAMBDA e : e.o = o)
GotIn(l, o) == [i \in 1..Len(EntriesIn(l, o)) |-> EntriesIn(l, o)[i].v]

-----------------------------------------------------------------------------
(* Claims about one root Varying, under Spec *)

\* C1: a set of a value strictly equal to the one the Varying holds is a
\* no-op: the value and the generation stay as they were and no callback
\* of any reaction is called.
C1_EqualSetIsNoOp ==
  (last.op = "set" /\ last.flag) =>
    /\ val[last.c] = last.v
    /\ gen[last.c] = last.pg
    /\ Len(log) = last.pl

C1_Witness ==
  /\ last.op = "set" /\ last.flag
  /\ Live(last.c, "push") # {}
  /\ last.pg > 0

\* C2: no reaction is ever called by a wave with a value of a generation
\* the Varying has already left; in the coercion sample (reaction 1 rounds
\* the Varying, reaction 2 records) the recording reaction is handed whole
\* numbers only by the waves, never the 3.5 that was set.
C2_GenerationGuard ==
  /\ \A i \in 1..Len(log) : log[i].g = log[i].now
  /\ (/\ Len(ob) >= 2
      /\ ob[1].kind = "round" /\ ~ob[1].stopped
      /\ ob[2].kind = "push")
     => \A i \in 1..Len(log) :
          (log[i].o = 2 /\ ~log[i].direct) => log[i].v = Round(log[i].v)

C2_Witness ==
  /\ Len(ob) >= 2
  /\ ob[1].kind = "round" /\ ~ob[1].stopped /\ ob[1].immediate
  /\ ob[2].kind = "push" /\ ob[2].immediate
  /\ last.op = "set" /\ last.v = Num(7)
  /\ Got(1) = <<Num(4), Num(7), Num(8)>>
  /\ Got(2) = <<Num(4), Num(8)>>

\* C3: within one wave the reactions are called in registration order
\* (observation ids are handed out in registration order): of two calls
\* made for the same generation of the same Varying, the one of the
\* earlier-registered reaction comes first.
C3_RegistrationOrder ==
  \A i, j \in 1..Len(log) :
    (/\ i < j
     /\ log[i].c = log[j].c /\ log[i].g = log[j].g
     /\ ~log[i].direct /\ ~log[j].direct)
    => log[i].o < log[j].o

C3_Witness ==
  \E i, j \in 1..Len(log) :
    /\ i < j
    /\ log[i].c = log[j].c /\ log[i].g = log[j].g
    /\ ~log[i].direct /\ ~log[j].direct
    /\ log[i].o < log[j].o
    /\ log[i].g > 1

\* C4: react with immediate calls the callback exactly once, directly,
\* with the value the Varying holds, before react returns; react(false, ..)
\* does not call it: every call such a reaction gets is made by the wave of
\* a set accepted later.
C4_ImmediateCallback ==
  /\ \A o \in 1..Len(ob) :
       LET direct == SelectSeq(Entries(o), LAMBDA e : e.direct)
       IN IF ob[o].immediate
          THEN Len(direct) = 1 /\ Entries(o)[1].direct
          ELSE Len(direct) = 0
  /\ last.op = "react" =>
       LET new == SelectSeq(Since(last.pl), LAMBDA e : e.o = last.o)
       IN IF last.flag
          THEN Len(new) = 1 /\ new[1].v = last.v /\ new[1].direct
          ELSE Len(new) = 0

C4_Witness ==
  /\ last.op = "react" /\ last.flag
  /\ last.pg > 0
  /\ Len(obsv[last.c]) = 2
  /\ Got(last.o) = <<val[last.c]>>

\* The arguments of the set calls made on c during the step, in the order
\* of the calls: the program's own, then the one each rounding reaction
\* makes when it is called.
C5_SetArgs(c) ==
  LET new == SubSeq(log', Len(log) + 1, Len(log'))
      rounds == SelectSeq(new, LAMBDA e : e.c = c /\ ob'[e.o].kind = "round")
  IN (IF last'.op = "set" /\ last'.c = c THEN <<last'.v>> ELSE <<>>)
     \o [i \in 1..Len(rounds) |-> Round(rounds[i].v)]

\* seq without the values equal to their predecessor (prev before seq[1])
RECURSIVE C5_Distinct(_, _)
C5_Distinct(prev, seq) ==
  IF seq = <<>> THEN <<>>
  ELSE IF seq[1] = prev THEN C5_Distinct(prev, Tail(seq))
  ELSE <<seq[1]>> \o C5_Distinct(seq[1], Tail(seq))

C5_Handed(o) ==
  LET c == ob'[o].cell
  IN GotIn(log', o) =
       IF o > Len(ob) THEN <<val[c]>>
       ELSE GotIn(log, o) \o C5_Distinct(val[c], C5_SetArgs(c))

C5_Recording(o) ==
  /\ ob'[o].cell \in Roots /\ ob'[o].kind = "push"
  /\ ob'[o].immediate /\ ~ob'[o].stopped

C5_NoSetterBefore(o) ==
  \A q \in 1..(o - 1) :
    ~(ob'[q].cell = ob'[o].cell /\ ob'[q].kind = "round" /\ ~ob'[q].stopped)

\* C5 as claimed: a live recording reaction made with immediate on a root
\* Varying is handed the initial value and then the argument of every set
\* call (the program's and the other reactions') that differs from its
\* predecessor.
C5_AnyCompany ==
  [][\A o \in 1..Len(ob') : C5_Recording(o) => C5_Handed(o)]_vars

\* C5, amended: the same, provided no live reaction registered before it on
\* the Varying sets the Varying from inside its callback.
C5_PushSequence ==
  [][\A o \in 1..Len(ob') :
       (C5_Recording(o) /\ C5_NoSetterBefore(o)) => C5_Handed(o)]_vars

C5_Witness ==
  /\ last.op = "set" /\ last.flag
  /\ Live(last.c, "round") = {}
  /\ \E o \in Live(last.c, "push") :
       /\ ob[o].immediate
       /\ Len(Got(o)) = 3
       /\ Got(o)[3] = last.v

\* C6: once the program's call of stop() on an Observation has returned,
\* the stopped reaction is never called again, while every other live
\* reaction of the Varying is still called by each later accepted set and
\* ends up with the value the Varying holds.
C6_StoppedStaysSilent ==
  [][/\ \A o \in halted : EntriesIn(log', o) = EntriesIn(log, o)
     /\ (last'.op = "set" /\ ~last'.flag) =>
          \A q \in 1..Len(ob) :
            (ob'[q].cell = last'.c /\ ~ob'[q].stopped) =>
              LET new == EntriesIn(SubSeq(log', Len(log) + 1, Len(log')), q)
              IN new # <<>> /\ new[Len(new)].v = val'[last'.c]]_vars

C6_Witness ==
  /\ last.op = "set" /\ ~last.flag
  /\ \E o \in halted : ob[o].cell = last.c /\ Got(o) # <<>>
  /\ \E q \in Live(last.c, "push") : Got(q)[Len(Got(q))] = last.v

\* C7: a reaction whose callback calls this.stop() is called once and
\* never again; made with immediate, that one call is the direct call with
\* the value held when react was called (the sample's result is [1]).
C7_StopInsideCallback ==
  \A o \in 1..Len(ob) :
    ob[o].kind = "stopSelf" =>
      /\ Len(Entries(o)) <= 1
      /\ ob[o].immediate => (Len(Entries(o)) = 1 /\ Entries(o)[1].direct)
      /\ Entries(o) # <<>> => \A i \in 1..Len(obsv[ob[o].cell]) : obsv[ob[o].cell][i] # o

C7_Witness ==
  /\ last.op = "set" /\ ~last.flag
  /\ \E o \in 1..Len(ob) :
       /\ ob[o].kind = "stopSelf" /\ ob[o].immediate /\ ob[o].cell = last.c
       /\ Len(Got(o)) = 1 /\ Got(o)[1] # last.v

\* C8: stop() is idempotent: a call of stop() on an Observation the program
\* has stopped before changes nothing (observer lists, counts, values,
\* calls made), and the count of a Varying is always the number of its
\* Observations created and not stopped.
C8_StopIdempotent ==
  [][/\ (last'.op = "stop" /\ last'.flag) =>
          UNCHANGED <<val, gen, obsv, refs, ob, up, inner, calls, log>>
     /\ \A c \in Cells :
          refs'[c] = Cardinality({o \in 1..Len(ob') : ob'[o].cell = c /\ ~ob'[o].stopped})]_vars

C8_Witness ==
  /\ last.op = "stop" /\ last.flag
  /\ Live(last.c, "push") # {}
  /\ refs[last.c] = 1
  /\ Len(ob) = 2

-----------------------------------------------------------------------------
(* Claims about the flatMap sample, under SpecFlat *)

\* The Varying the mapping function of d picks for the value choose holds.
Selected == MapFn("d", val["choose"]).c
Unselected == IF Selected = "odds" THEN "evens" ELSE "odds"

\* C9: a reaction on the flatMapped d follows the inner Varying that is
\* selected: the value it was handed last is the value of the selected
\* Varying; a set on the Varying that is not selected calls nothing; and a
\* set of choose that selects the other Varying hands the reaction that
\* Varying's present value, once (the sample's trace is 1, 2, 4, 3).
C9_FlatMapRetargets ==
  /\ \A o \in Live("d", "push") :
       Entries(o) # <<>> => Got(o)[Len(Got(o))] = val[Selected]
  /\ up["d"] # 0 => val["d"] = val[Selected]
  /\ (last.op = "set" /\ last.c = Unselected) => Len(log) = last.pl
  /\ (last.op = "set" /\ last.c = "choose" /\ ~last.flag
        /\ val[Selected] # val[Unselected]) =>
       \A o \in Live("d", "push") :
         LET new == EntriesIn(Since(last.pl), o)
         IN Len(new) = 1 /\ new[1].v = val[Selected]

C9_Witness ==
  /\ last.op = "set" /\ last.c = "choose" /\ last.v = Str("odds")
  /\ \E o \in Live("d", "push") : Got(o) = <<Num(1), Num(2), Num(4), Num(3)>>

-----------------------------------------------------------------------------
(* Claims about the lazy map samples, under SpecMap *)

\* C10: the mapping function of b = a.map(fn) is not executed at all, over
\* any sets of a and reactions on a, as long as neither get nor react has
\* been called on b or on the Varying b2 mapped from it.
C10_MapIsLazy ==
  ~touched["b"] => calls["b"] = 0

C10_Witness ==
  /\ ~touched["b"] /\ calls["b"] = 0
  /\ gen["a"] >= 2
  /\ Live("a", "push") # {}
  /\ last.op = "set" /\ ~last.flag

-----------------------------------------------------------------------------
(* Claims about mapped Varyings, under SpecDerived *)

\* The reactions on c that have not been stopped, the program's and those
\* of the Varyings mapped from c.
Reactions(c) == {o \in 1..Len(ob) : ob[o].cell = c /\ ~ob[o].stopped}

\* The live reactions that the Varying d holds on other Varyings.
Held(d) == {o \in 1..Len(ob) : ob[o].owner = d /\ ~ob[o].stopped}

\* C11: between calls, whatever sets, reacts and stops came before (d never
\* reacted on, reacted on now, or no longer reacted on), get on a mapped
\* Varying d of the program (d, b or b2) answers fn(source.get()); when d
\* flattens and that result is a Varying, it answers that inner Varying's
\* get().  The answer a get call
\* of the program returned is that value too.
C11_GetIsMapOfSource ==
  /\ \A d \in {"d", "b", "b2"} :
       LET m == MapFn(d, GetValue(State, Source(d)).v)
       IN GetValue(State, d).v =
            IF Flattens(d) /\ IsRef(m) THEN GetValue(State, m.c).v ELSE m
  /\ (last.op = "get" /\ last.c \in Derived) =>
       LET m == MapFn(last.c, GetValue(State, Source(last.c)).v)
       IN last.v = IF Flattens(last.c) /\ IsRef(m) THEN val[m.c] ELSE m

\* b was reacted on, is not any more, a has changed since, and get answers
\* with the new mapping, not with the value b held while reacted on
C11_Witness ==
  /\ last.op = "get" /\ last.c = "b" /\ ~last.flag
  /\ halted # {} /\ Reactions("b") = {}
  /\ last.v = Num(val["a"].n * 4)
  /\ val["b"] # last.v

\* C12: a mapped Varying reacts on its source exactly while there is a
\* live reaction on it, and while there is none it holds no reaction at
\* all, on its source or on an inner Varying.  Along the chain a, b, b2 a
\* reaction on the last Varying b2 keeps b reacting on a, and the chain
\* holds a reaction on a exactly while b2 or b is reacted on from outside
\* the chain; once the last of those reactions is stopped the only
\* reactions left on a are the program's own.
C12_ReactsOnSourceWhileReactedOn ==
  /\ \A d \in {"d", "b", "b2"} :
       /\ up[d] # 0 <=> Reactions(d) # {}
       /\ up[d] # 0 => (up[d] \in Reactions(Source(d)) /\ ob[up[d]].owner = d)
       /\ Reactions(d) = {} => Held(d) = {}
       /\ Cardinality(Held(d)) <= (IF Flattens(d) THEN 2 ELSE 1)
  /\ Reactions("b2") # {} => (up["b2"] # 0 /\ up["b"] # 0)
  /\ (Reactions("a") \ External # {}) <=>
       ((Reactions("b2") \cup Reactions("b")) \cap External # {})
  /\ (Reactions("b") \cap External = {}) =>
       ((Reactions("a") \ External # {}) <=> Reactions("b2") # {})

\* the one reaction on the end of the chain has been stopped and the whole
\* chain has let go of a
C12_Witness ==
  /\ last.op = "stop" /\ last.c = "b2" /\ ~last.flag
  /\ ob[last.o].stopped
  /\ Len(ob) = 3
  /\ \A o \in 1..Len(ob) : ob[o].stopped
  /\ obsv["a"] = <<>> /\ obsv["b"] = <<>>

-----------------------------------------------------------------------------
(* Claims about refCount, under SpecCount *)

\* C13: between calls the refCount Varying of w holds the number of
\* Observations made on w and not stopped, and a recording reaction made
\* on it with immediate was handed the count at that moment first and the
\* present count last; as long as no callback makes calls of its own, it
\* has been handed every count in between, each one more or one less than
\* the one before, starting from 0 when no reaction had ever been made on
\* w (0, 1, 2, 1, 0 for two Observations then made and stopped in that
\* order).
C13_RefCountIsLiveObservations ==
  /\ val["wc"] = Num(Cardinality(Reactions("w")))
  /\ refs["w"] = Cardinality(Reactions("w"))
  /\ \A o \in Live("wc", "push") :
       ob[o].immediate =>
         /\ Got(o) # <<>>
         /\ Entries(o)[1].direct
         /\ Entries(o)[1].g = 0 => Got(o)[1] = Num(0)
         /\ Got(o)[Len(Got(o))] = val["wc"]
         /\ (\A q \in 1..Len(ob) : ob[q].kind = "push") =>
              \A i \in 1..(Len(Got(o)) - 1) :
                Got(o)[i + 1].n - Got(o)[i].n \in {1, -1}

C13_Witness ==
  /\ last.op = "stop" /\ last.o = 3
  /\ Len(ob) = 3 /\ halted = {2, 3}
  /\ ob[1].cell = "wc" /\ ob[2].cell = "w" /\ ob[3].cell = "w"
  /\ Got(1) = <<Num(0), Num(1), Num(2), Num(1), Num(0)>>
  /\ Got(1) = <<Num(0), Num(1), Num(2), Num(1), Num(0)>>

\* C14: when react with immediate on w moves w's count, the reactions on
\* the refCount Varying, and the reactions on w that their sets of w
\* call, have all been called before the new reaction is handed the value,
\* and the value handed is the one w holds after them: with a live
\* reaction on the refCount Varying that sets w to 42 as soon as the count
\* is positive, the new reaction on w receives exactly 42.
C14_CountSettlesBeforeImmediate ==
  (last.op = "react" /\ last.c = "w" /\ last.flag) =>
    LET new == Since(last.pl)
        mine == {i \in 1..Len(new) : new[i].o = last.o}
    IN /\ Cardinality(mine) = 1
       /\ \A i \in mine :
            /\ new[i].direct
            /\ new[i].v = val["w"]
            /\ ob[last.o].kind = "push" => i = Len(new)
            /\ Live("wc", "prime") # {} => new[i].v = Num(Answer)
            /\ \A q \in Reactions("wc") : \E j \in 1..(i - 1) : new[j].o = q

C14_Witness ==
  /\ last.op = "react" /\ last.c = "w" /\ last.flag
  /\ Len(ob) = 2
  /\ ob[1].kind = "prime" /\ ~ob[1].stopped
  /\ Got(1) = <<Num(1)>>
  /\ Got(2) = <<Num(Answer)>>

-----------------------------------------------------------------------------
(* Claims about Varying.managed, under SpecManaged *)

\* How many times resource r of the managed Varying m has been created,
\* and destroyed, in the events l.
Created(l, r) == Len(SelectSeq(l, LAMBDA e : e.op = "create" /\ e.r = r))
Destroyed(l, r) == Len(SelectSeq(l, LAMBDA e : e.op = "destroy" /\ e.r = r))

\* The resources of m.
C15_Resources == {Resources("m")[i] : i \in 1..Len(Resources("m"))}

\* C15: over any reactions made on the managed Varying m and stopped, each
\* resource function is called exactly once by a react that finds m with
\* no reaction, and not at all by any other call; destroy() is called
\* exactly once on each resource by a call that leaves m with no reaction
\* after it had one, and not at all by any other call; so a react after the
\* resources were destroyed creates them again, and each resource exists
\* exactly while m has a reaction on it.
C15_ResourcesFollowReactions ==
  [][LET new == SubSeq(res', Len(res) + 1, Len(res'))
         first == last'.op = "react" /\ refs["m"] = 0
         gone == refs'["m"] = 0 /\ (refs["m"] = 1 \/ first)
     IN \A r \in C15_Resources :
          /\ Created(new, r) = (IF first THEN 1 ELSE 0)
          /\ Destroyed(new, r) = (IF gone THEN 1 ELSE 0)
          /\ Created(res', r) - Destroyed(res', r) = (IF refs'["m"] > 0 THEN 1 ELSE 0)
          /\ refs'["m"] = Cardinality({o \in External' : ~ob'[o].stopped})]_vars

\* two reactions were made and stopped, the resources created once and
\* destroyed once, and a third reaction has created them again
C15_Witness ==
  /\ last.op = "react" /\ last.c = "m"
  /\ Cardinality(halted) = 2 /\ refs["m"] = 1
  /\ res = <<Event("create", "m", "expensive"), Event("create", "m", "anotherExpensive"),
             Event("destroy", "m", "expensive"), Event("destroy", "m", "anotherExpensive"),
             Event("create", "m", "expensive"), Event("create", "m", "anotherExpensive")>>
  /\ Got(last.o) = <<Num(Result)>>

-----------------------------------------------------------------------------
(* Claims about Varyings made of several, under SpecAll *)

\* What the function of c gives for the values vx and vy (for all: the
\* array of them).
C16_Now(c, vx, vy) == Fn(c, Tup(<<vx, vy>>, 0))

\* v is that result (an array is compared by what it holds).
C16_Is(c, v, vx, vy) ==
  IF c = "xy" THEN v.k = "tup" /\ v.e = <<vx, vy>>
  ELSE v = C16_Now(c, vx, vy)

\* C16: react with immediate on a Varying made of x and y (by all, mapAll
\* or lift) calls the callback exactly once, with the result for the values
\* both hold; afterwards each accepted set of x or of y makes the Varying
\* apply its function exactly once, to the values both hold then, and calls
\* each live reaction at most once, with that result; and after every call
\* a Varying that is reacted on holds the result for the values x and y
\* hold (mapAll on 3 and 6 with multiply, then x.set(5) and y.set(1), gives
\* 18, 30, 5).
C16_AllOfCurrentValues ==
  [][\A c \in Combined :
       /\ refs'[c] > 0 => C16_Is(c, val'[c], val'["x"], val'["y"])
       /\ (last'.op = "react" /\ last'.flag) =>
            LET o == Ext(c)'[Len(Ext(c)')]
                new == EntriesIn(SubSeq(log', Len(log) + 1, Len(log')), o)
            IN /\ Len(new) = 1
               /\ C16_Is(c, new[1].v, val'["x"], val'["y"])
       /\ (last'.op = "set" /\ refs[c] > 0) =>
            /\ calls'[c] = calls[c] + 1
            /\ \A o \in 1..Len(ob) :
                 (ob[o].cell = c /\ ~ob[o].stopped) =>
                   LET new == EntriesIn(SubSeq(log', Len(log) + 1, Len(log')), o)
                   IN /\ Len(new) = (IF val'[c] = val[c] THEN 0 ELSE 1)
                      /\ \A i \in 1..Len(new) :
                           C16_Is(c, new[i].v, val'["x"], val'["y"])]_vars

C16_Witness ==
  /\ last.op = "set" /\ last.c = "y" /\ last.v = Num(1)
  /\ Len(Ext("z")) = 1
  /\ Got(Ext("z")[1]) = <<Num(18), Num(30), Num(5)>>
  /\ LET t == Got(Ext("xy")[1])
     IN [i \in 1..Len(t) |-> t[i].e] =
          <<(<<Num(3), Num(6)>>), (<<Num(5), Num(6)>>), (<<Num(5), Num(1)>>)>>

-----------------------------------------------------------------------------
(* Claims about creating Varyings, under SpecOf *)

\* The call constructed one Varying, the one handed back, and get on it
\* answers x.
C18_Wrapped(x) ==
  /\ made = last.pg + 1
  /\ last.c = Pool[made]
  /\ GetValue(State, last.c).v = x

\* C18: Varying.of(x) hands back x itself, constructing nothing, when x is
\* a Varying, and otherwise a new Varying whose get() is x; so the outer
\* call of Varying.of(Varying.of(x)) hands back the very Varying the inner
\* one did and constructs nothing; new Varying(x) always constructs a
\* Varying whose get() is x, also when x is a Varying.
C18_OfHandsBackVaryings ==
  /\ last.op \in {"of", "ofof"} =>
       IF IsRef(last.v)
       THEN last.c = last.v.c /\ made = last.pg
       ELSE C18_Wrapped(last.v)
  /\ last.op = "ofof" => (last.flag /\ made = last.pl)
  /\ last.op = "new" =>
       /\ C18_Wrapped(last.v)
       /\ IsRef(last.v) => last.c # last.v.c

\* Varying.of(Varying.of(15)) after a Varying of a Varying was constructed
C18_Witness ==
  /\ last.op = "ofof" /\ last.v = Num(15)
  /\ made = 3
  /\ val["p2"] = Ref("p1")
  /\ val["p3"] = Num(15)

-----------------------------------------------------------------------------
(* Claims about callbacks that throw, under SpecFault *)

\* The calls of callbacks that throw, among the calls l.
C19_Throws(l) == {i \in 1..Len(l) : ob[l[i].o].kind = "fault"}

\* C19: when a callback throws during the wave of a set, the set call of
\* the program ends by throwing (and only then), the call of the throwing
\* callback is the last call made, and in each wave under way (the set's
\* own and those of the sets made by callbacks) no reaction that comes in
\* the list after the one whose callback was under way is called.
C19_ThrowEndsTheWave ==
  last.op = "set" =>
    LET new == Since(last.pl)
    IN /\ thrown <=> C19_Throws(new) # {}
       /\ thrown =>
            /\ C19_Throws(new) = {Len(new)}
            /\ gen[last.c] > last.pg
            /\ \A i \in 1..Len(new) :
                 (\A j \in (i + 1)..Len(new) : new[j].g # new[i].g) =>
                   \A q \in Reactions(last.c) :
                     q > new[i].o =>
                       \A j \in 1..Len(new) : ~(new[j].o = q /\ new[j].g = new[i].g)

\* a reaction that records, one that throws, one that records: the set was
\* accepted, the first was called, the second was called and threw, the
\* third was not called
C19_Witness ==
  /\ last.op = "set" /\ ~last.flag /\ thrown
  /\ val[last.c] = last.v
  /\ Len(ob) = 3
  /\ ob[1].kind = "push" /\ ~ob[1].stopped
  /\ ob[2].kind = "fault" /\ ~ob[2].stopped
  /\ ob[3].kind = "push" /\ ~ob[3].stopped
  /\ Got(1) = <<last.v>>
  /\ Got(2) = <<last.v>>
  /\ Got(3) = <<>>

-----------------------------------------------------------------------------
(* Claims about a managed Varying whose resource throws, under SpecRelease *)

\* C21: when destroy() of a resource throws as the managed Varying mf loses
\* its last reaction, mf is left with no reaction on the Varying it
\* tracked and nothing reacting on it, and the call that made it so throws;
\* the next reaction made on mf creates every resource again and tracks the
\* Varying its last function returns.
C21_ThrowingReleaseStillLetsGo ==
  [][LET new == SubSeq(res', Len(res) + 1, Len(res'))
         freed == Destroyed(new, "brittle") > 0
         first == last'.op = "react" /\ refs["mf"] = 0
     IN /\ freed =>
             /\ thrown'
             /\ refs'["mf"] = 0 /\ obsv'["mf"] = <<>>
             /\ inner'["mf"] = 0
             /\ refs'["mfi"] = 0 /\ obsv'["mfi"] = <<>>
             /\ \A o \in 1..Len(ob') : ob'[o].cell = "mfi" => ob'[o].stopped
        /\ freed <=> (refs'["mf"] = 0 /\ (refs["mf"] > 0 \/ first))
        /\ first =>
             /\ \A i \in 1..Len(Resources("mf")) :
                  new[i] = Event("create", "mf", Resources("mf")[i])
             /\ ~freed =>
                  /\ ~thrown'
                  /\ inner'["mf"] # 0
                  /\ ~ob'[inner'["mf"]].stopped
                  /\ obsv'["mfi"] = <<inner'["mf"]>>
                  /\ val'["mf"] = Compute("mf").v
    ]_vars

\* mf has been reacted on again after a destroy() that threw.
C21_Witness ==
  /\ last.op = "react" /\ ~thrown
  /\ refs["mf"] = 1
  /\ Destroyed(res, "brittle") = 1
  /\ Created(res, "brittle") = 2
  /\ halted # {}

-----------------------------------------------------------------------------
(* Claims about get, under SpecGet *)

\* C22: get has no side effects: whatever kind of Varying it is called on,
\* every Varying holds the value and the generation it held, has the
\* reactions it had, and no reaction has been made or stopped; a mapped
\* Varying nobody reacts on reacts neither on its source nor on an inner
\* Varying afterwards.
C22_GetChangesNothing ==
  [][last'.op = "get" =>
       /\ val' = val /\ gen' = gen
       /\ obsv' = obsv /\ refs' = refs /\ ob' = ob
       /\ up' = up /\ inner' = inner
       /\ log' = log /\ res' = res
       /\ (last'.c \in Derived /\ refs[last'.c] = 0) =>
            /\ up'[last'.c] = 0 /\ inner'[last'.c] = 0
            /\ \A o \in 1..Len(ob') : ob'[o].owner # last'.c \/ ob'[o].stopped
    ]_vars

\* get has answered for the flatMapped d while nobody reacted on it and
\* somebody reacted on the mapped b.
C22_Witness ==
  /\ last.op = "get" /\ last.c = "d" /\ refs["d"] = 0
  /\ last.v = val["odds"]
  /\ calls["d"] > 0
  /\ refs["b"] > 0

-----------------------------------------------------------------------------
(* Claims about the generation, under SpecGen *)

\* C23: the generation of a Varying never goes down; over any call of the
\* program it goes up by exactly the number of sets of a new value made
\* during the call (the program's own and those the rounding callbacks
\* make), so that a set of the value held, a get, a stop and a react whose
\* callbacks set nothing leave it as it was.
C23_GenerationCountsAcceptedSets ==
  [][LET new == SubSeq(log', Len(log) + 1, Len(log'))
         rounds == Len(SelectSeq(new, LAMBDA e :
                         ob'[e.o].kind = "round" /\ e.v # Round(e.v)))
         own == IF last'.op = "set" /\ ~last'.flag THEN 1 ELSE 0
     IN /\ \A c \in Cells : gen'[c] >= gen[c]
        /\ gen'["v"] = gen["v"] + own + rounds
        /\ (own = 1) => gen'["v"] > gen["v"]
        /\ (\/ last'.op \in {"get", "stop"}
            \/ last'.op = "set" /\ last'.flag
            \/ last'.op = "react" /\ rounds = 0) => gen' = gen
    ]_vars

\* A set of the program has been followed by a set made by a callback, and
\* the generation has gone up twice.
C23_Witness ==
  /\ last.op = "set" /\ ~last.flag
  /\ gen["v"] = last.pg + 2
  /\ last.pg > 0

-----------------------------------------------------------------------------
(* Claims about overlapping waves, under Spec *)

\* C24: the generations of the values a reaction is handed go strictly up
\* from each call to the next, and no reaction is handed a value of an
\* older generation than one already handed to a reaction registered
\* before it.
C24_GenerationsGoUp ==
  \A i, j \in 1..Len(log) :
    (i < j /\ log[i].c = log[j].c) =>
      /\ log[i].o = log[j].o => log[i].g < log[j].g
      /\ log[i].o < log[j].o => log[i].g <= log[j].g

\* The recording reaction registered before the rounding one has been
\* handed two values by the waves of one set.
C24_Witness ==
  /\ Len(ob) = 2
  /\ ob[1].kind = "push" /\ ob[2].kind = "round"
  /\ last.op = "set" /\ last.pl = 0
  /\ Len(Entries(1)) = 2
  /\ Entries(1)[1].g = 1 /\ Entries(1)[2].g = 2
  /\ Entries(2)[1].g = 1

-----------------------------------------------------------------------------
(* Claims about reactions stopped and made during a wave, under SpecWave *)

\* The reactions called since the call of the program began.
CalledIn(l) == {l[i].o : i \in 1..Len(l)}

\* C25: when a callback stops the reaction registered after its own
\* during a wave, that reaction is not called by the wave, and the wave goes
\* on: every reaction of the list as it was when the value changed is
\* called, once and with the new value, unless a callback called before it
\* in the wave has stopped it.
C25_StoppedInWaveIsSkipped ==
  [][(last'.op = "set" /\ ~last'.flag) =>
       LET snap == obsv["v"]
           new == SubSeq(log', Len(log) + 1, Len(log'))
           cut(k) == \E j \in 1..(k - 1) :
                       /\ ob[snap[j]].kind = "stopNext"
                       /\ snap[j] + 1 = snap[k]
                       /\ snap[j] \in CalledIn(new)
       IN \A k \in 1..Len(snap) :
            /\ snap[k] \in CalledIn(new) <=> ~cut(k)
            /\ cut(k) => ob'[snap[k]].stopped
            /\ ~cut(k) =>
                 /\ Len(EntriesIn(new, snap[k])) = 1
                 /\ EntriesIn(new, snap[k])[1].v = val'["v"]
                 /\ EntriesIn(new, snap[k])[1].g = gen'["v"]
    ]_vars

\* The first reaction has stopped the second during the wave of the last
\* set, and the third has been called after that.
C25_Witness ==
  /\ Len(ob) = 3
  /\ ob[1].kind = "stopNext" /\ ob[2].kind = "push" /\ ob[3].kind = "push"
  /\ last.op = "set" /\ last.pl = 0
  /\ ob[2].stopped /\ 2 \notin halted
  /\ Got(2) = <<>>
  /\ Got(3) = <<last.v>>
  /\ Got(1) = <<last.v>>

\* The calls of the callbacks that make a reaction, in the order made, and
\* the reactions they made, in the order made: the j-th of the latter was
\* made during the j-th of the former.
Makers == SelectSeq(log, LAMBDA e : ob[e.o].kind = "more")
Late == SelectSeq([i \in 1..Len(ob) |-> i], LAMBDA o : ob[o].kind = "late")

\* C26: a reaction made with react(false, ..) by a callback during a wave
\* is not called by that wave; the first call it gets, if it is not stopped
\* before, is made by the wave of the next set of a new value.
C26_MadeInWaveWaitsForNext ==
  /\ Len(Late) = Len(Makers)
  /\ \A j \in 1..Len(Late) :
       LET o == Late[j]
           g == Makers[j].g
       IN /\ \A i \in 1..Len(Entries(o)) :
               Entries(o)[i].g > g /\ ~Entries(o)[i].direct
          /\ Entries(o) # <<>> => Entries(o)[1].g = g + 1
          /\ (~ob[o].stopped /\ gen["v"] > g) => Entries(o) # <<>>
          /\ (~ob[o].stopped /\ gen["v"] = g) => \E k \in 1..Len(obsv["v"]) : obsv["v"][k] = o

\* A reaction made during the wave of one set has been called by the wave
\* of the next, after a reaction made by the program later than its maker.
C26_Witness ==
  /\ Len(ob) = 4
  /\ ob[1].kind = "more" /\ ob[2].kind = "push" /\ ob[3].kind = "late"
  /\ gen["v"] = 2
  /\ Len(Entries(1)) = 2
  /\ Len(Entries(2)) = 2
  /\ Len(Entries(3)) = 1 /\ Entries(3)[1].g = 2
  /\ Entries(4) = <<>>

-----------------------------------------------------------------------------
(* Claims about the immediate call, under Spec *)

\* C27: the call react(true, ..) makes of the callback is a direct one,
\* with the value and the generation the Varying holds, made before the
\* reaction is on the list: it is the first call of the react, the only
\* call the new reaction gets even when its callback sets the Varying, and
\* unless the callback sets the Varying the generation stays and no other
\* reaction is called; afterwards the new reaction is the last of the list
\* (unless its callback has stopped it).
C27_ImmediateCallComesFirst ==
  [][(last'.op = "react" /\ last'.flag) =>
       LET id == Len(ob) + 1
           new == SubSeq(log', Len(log) + 1, Len(log'))
       IN /\ new # <<>>
          /\ new[1] = [o |-> id, c |-> "v", v |-> val["v"], g |-> gen["v"],
                       now |-> gen["v"], direct |-> TRUE]
          /\ Len(EntriesIn(new, id)) = 1
          /\ \A i \in 2..Len(new) : ~new[i].direct /\ new[i].g > gen["v"]
          /\ ob'[id].kind # "round" =>
               /\ gen' = gen /\ val' = val
               /\ Len(new) = 1
          /\ ~ob'[id].stopped =>
               /\ obsv'["v"] # <<>>
               /\ obsv'["v"][Len(obsv'["v"])] = id
               /\ Without(obsv'["v"], id) = SelectSeq(obsv["v"], LAMBDA o : ~ob'[o].stopped)
          /\ ob'[id].stopped => obsv'["v"] = obsv["v"]
    ]_vars

\* A rounding reaction made with react(true, ..) has set the Varying from
\* its immediate call and an earlier reaction has been called for it.
C27_Witness ==
  /\ last.op = "react" /\ last.flag
  /\ Len(ob) = 2 /\ last.o = 2
  /\ ob[1].kind = "push" /\ ob[2].kind = "round"
  /\ gen["v"] = last.pg + 1
  /\ Len(Entries(2)) = 1
  /\ obsv["v"] = <<1, 2>>
  /\ Entries(1)[Len(Entries(1))].g = gen["v"]

-----------------------------------------------------------------------------
(* Claims about the inner Varying of a flatMapped one, under SpecFlat *)

\* The live reactions the flatMapped d holds on inner Varyings.
InnerHeld(d) == {o \in Held(d) : ob[o].kind = "inner"}

\* C28: the flatMapped d reacts on at most one inner Varying at a time;
\* while it is reacted on it reacts on exactly one, the one its mapping
\* function gives for the value its source holds, so that the reaction on
\* the inner Varying selected before has been stopped; and when nobody
\* reacts on d it reacts on none.
C28_OneInnerReaction ==
  /\ Cardinality(InnerHeld("d")) <= 1
  /\ refs["d"] > 0 =>
       /\ InnerHeld("d") = {inner["d"]}
       /\ ob[inner["d"]].cell = Selected
       /\ obsv[Selected] = <<inner["d"]>> /\ refs[Selected] = 1
       /\ obsv[Unselected] = <<>> /\ refs[Unselected] = 0
  /\ refs["d"] = 0 =>
       /\ InnerHeld("d") = {} /\ inner["d"] = 0
       /\ \A c \in {"odds", "evens"} : obsv[c] = <<>> /\ refs[c] = 0

\* choose has just selected the other inner Varying while d was reacted
\* on, and later nobody reacts on d: both reactions d made are stopped.
C28_Witness ==
  /\ last.op = "stop" /\ refs["d"] = 0
  /\ \E o, q \in 1..Len(ob) :
       /\ o < q
       /\ ob[o].kind = "inner" /\ ob[q].kind = "inner"
       /\ ob[o].cell # ob[q].cell
       /\ ob[o].stopped /\ ob[q].stopped
       /\ ob[q].cell = Selected

-----------------------------------------------------------------------------
(* Claims about how often mapping functions run, under SpecMap *)

\* C29: while a mapped Varying reacts on its source, its mapping function
\* is run once for each set of a new value on the source and not
\* otherwise, however many reactions there are on it: a further reaction on
\* it, a get and a stop run it zero times.
C29_MapsOncePerChange ==
  [][\A d \in {"b", "b2"} :
       up[d] # 0 =>
         /\ calls'[d] = calls[d] + (IF gen'[Source(d)] # gen[Source(d)] THEN 1 ELSE 0)
         /\ (last'.op = "react" /\ last'.c = d) => calls'[d] = calls[d]
         /\ gen'[Source(d)] \in {gen[Source(d)], gen[Source(d)] + 1}
    ]_vars

\* b has been reacted on, a has been set, and a second reaction has been
\* made on b: the mapping function has run twice, once on activation and
\* once for the set.
C29_Witness ==
  /\ last.op = "react" /\ last.c = "b"
  /\ Cardinality(Reactions("b")) = 2
  /\ gen["a"] = 1
  /\ calls["b"] = 2

-----------------------------------------------------------------------------
(* Claims about the order of a managed Varying's work, under SpecManaged *)

\* C30: a managed Varying gaining its first reaction calls its resource
\* functions in the order given and then its last function; losing its
\* last reaction it first stops reacting on the Varying that function
\* gave and then calls destroy() on every resource, in the order given.
C30_ManagedOrder ==
  [][LET n == Len(Resources("m"))
         newRes == SubSeq(res', Len(res) + 1, Len(res'))
         newTrail == SubSeq(trail', Len(trail) + 1, Len(trail'))
         first == last'.op = "react" /\ refs["m"] = 0
         gone == refs'["m"] = 0 /\ (refs["m"] > 0 \/ first)
     IN /\ Len(newRes) = (IF first THEN n ELSE 0) + (IF gone THEN n ELSE 0)
        /\ Len(newTrail) = (IF first THEN 1 ELSE 0) + (IF gone THEN 1 ELSE 0)
        /\ first =>
             /\ \A i \in 1..n : newRes[i] = Event("create", "m", Resources("m")[i])
             /\ newTrail[1] = [op |-> "compute", c |-> "m", at |-> Len(res) + n, on |-> 0]
        /\ gone =>
             /\ \A i \in 1..n :
                  res'[Len(res') - n + i] = Event("destroy", "m", Resources("m")[i])
             /\ trail'[Len(trail')] =
                  [op |-> "letgo", c |-> "m", at |-> Len(res') - n, on |-> 0]
    ]_vars

\* m has been reacted on twice and both reactions have been stopped: its
\* work was started once and ended once.
C30_Witness ==
  /\ last.op = "stop" /\ ~last.flag /\ refs["m"] = 0
  /\ Cardinality(halted) = 2
  /\ Len(res) = 2 * Len(Resources("m"))
  /\ trail = <<[op |-> "compute", c |-> "m", at |-> 2, on |-> 0],
               [op |-> "letgo", c |-> "m", at |-> 2, on |-> 0]>>

-----------------------------------------------------------------------------
(* Claims about what a Varying made of several reacts on, under SpecAll *)

\* The live reactions the Varying c holds on the Varyings it is made of.
Parts(c) == {o \in Held(c) : ob[o].kind = "part"}

\* C31: a Varying made of several reacts on each of the Varyings it is
\* made of exactly while somebody reacts on it: with a reaction on it it
\* holds one live reaction on each of them, with none it holds none (so
\* that x and y are reacted on by nothing else), and get then answers from
\* the values they hold at the moment.
C31_PartsWhileReactedOn ==
  /\ \A c \in Combined :
       /\ refs[c] > 0 =>
            \A i \in 1..Len(Sources(c)) :
              \E o \in Parts(c) :
                /\ {q \in Parts(c) : ob[q].cell = Sources(c)[i]} = {o}
                /\ \E k \in 1..Len(obsv[Sources(c)[i]]) : obsv[Sources(c)[i]][k] = o
       /\ refs[c] = 0 => Parts(c) = {}
  /\ \A s \in {"x", "y"} :
       /\ refs[s] = Cardinality({c \in Combined : refs[c] > 0})
       /\ Len(obsv[s]) = refs[s]
  /\ (last.op = "get" /\ ~last.flag) =>
       /\ last.v = Multiply(val["x"], val["y"])
       /\ \A c \in Combined \ {"xy"} : GetValue(State, c).v = last.v

\* Every reaction on the Varyings made of x and y has been stopped after
\* they reacted on x and y, and nothing reacts on x or y any more.
C31_Witness ==
  /\ last.op = "stop"
  /\ \A c \in Combined : refs[c] = 0
  /\ refs["x"] = 0 /\ refs["y"] = 0
  /\ \A c \in Combined : \E o \in 1..Len(ob) :
       ob[o].owner = c /\ ob[o].kind = "part" /\ ob[o].stopped
  /\ gen["x"] > 0

-----------------------------------------------------------------------------
(* Claims about flattening, under SpecFlatten *)

\* The Varying that n2 holds.
Innermost == val["n2"].c

\* C32: flattening takes off one layer: n3 holds n2 which holds a Varying
\* of a number, and n3.flatten() answers get with, and hands its reactions,
\* that innermost Varying, never the number; flattened a second time it
\* gives the number.  A flatMap whose function gives a plain value answers
\* get as the map with the same function does and hands the same values
\* to corresponding reactions, and tracks no inner Varying.
C32_FlattenOneLayer ==
  /\ GetValue(State, "f1").v = Ref(Innermost)
  /\ GetValue(State, "f2").v = val[Innermost]
  /\ val[Innermost].k = "num"
  /\ \A o \in External :
       /\ ob[o].cell = "f1" =>
            /\ \A i \in 1..Len(Got(o)) : IsRef(Got(o)[i])
            /\ (~ob[o].stopped /\ Got(o) # <<>>) => Got(o)[Len(Got(o))] = Ref(Innermost)
       /\ ob[o].cell = "f2" =>
            /\ \A i \in 1..Len(Got(o)) : Got(o)[i].k = "num"
            /\ (~ob[o].stopped /\ Got(o) # <<>>) => Got(o)[Len(Got(o))] = val[Innermost]
  /\ GetValue(State, Twins[2]).v = GetValue(State, Twins[1]).v
  /\ Len(Ext(Twins[2])) = Len(Ext(Twins[1]))
  /\ \A k \in 1..Len(Ext(Twins[1])) : Got(Ext(Twins[2])[k]) = Got(Ext(Twins[1])[k])
  /\ inner[Twins[2]] = 0

\* A reaction on the Varying flattened once has seen n2 move from odds to
\* evens, and the reactions on the map and on the flatMap of the same
\* plain function have been handed the same two values.
C32_Witness ==
  /\ \E o \in External :
       ob[o].cell = "f1" /\ Got(o) = <<Ref("odds"), Ref("evens")>>
  /\ GetValue(State, "f2").v = val["evens"]
  /\ Len(Ext(Twins[2])) = 1
  /\ Len(Got(Ext(Twins[2])[1])) = 2
  /\ gen["a"] = 1

-----------------------------------------------------------------------------
(* Claims about what reactions have seen between calls, under Spec *)

\* C33: between calls of the program (no callback throws under Spec),
\* every live reaction that has been called at all was handed last the
\* value the Varying holds.
C33_LastSeenIsPresent ==
  \A o \in 1..Len(ob) :
    (~ob[o].stopped /\ Entries(o) # <<>>) =>
      Got(o)[Len(Got(o))] = GetValue(State, ob[o].cell).v

-----------------------------------------------------------------------------
(* Claims about the value a mapped Varying applies to itself, under SpecGate *)

\* C34: a mapped Varying that is reacted on applies the mapped result to
\* itself as a set does: when a is set to a value whose mapped result is
\* the value h holds, the generation of h stays and no reaction on h is
\* called (the mapping function has run, once); when the result differs,
\* the generation of h moves on by one and each live reaction on h is
\* called once with the result.
C34_MappedResultIsSet ==
  [][(last'.op = "set" /\ ~last'.flag /\ up["h"] # 0) =>
       LET new == SubSeq(log', Len(log) + 1, Len(log'))
           seen == SelectSeq(new, LAMBDA e : e.c = "h")
           r == MapFn("h", last'.v)
       IN /\ calls'["h"] = calls["h"] + 1
          /\ val'["h"] = r
          /\ r = val["h"] => (gen'["h"] = gen["h"] /\ seen = <<>>)
          /\ r # val["h"] =>
               /\ gen'["h"] = gen["h"] + 1
               /\ Len(seen) = Len(obsv["h"])
               /\ \A i \in 1..Len(seen) :
                    seen[i].o = obsv["h"][i] /\ seen[i].v = r
    ]_vars

\* a has gone from 4 to 6 while h was reacted on: the mapped result is
\* again 0 and the reaction on h has been called once, by react.
C34_Witness ==
  /\ last.op = "set" /\ last.c = "a" /\ last.v = Num(6)
  /\ gen["a"] = 1 /\ gen["h"] = 0
  /\ calls["h"] = 2
  /\ \E o \in Live("h", "push") : Got(o) = <<Num(0)>>

-----------------------------------------------------------------------------
(* Claims about a flatMap that may give a plain value, under SpecPlain *)

\* What the mapping function of e gives for the value choose holds.
Picked == MapFn("e", val["choose"])

\* C35: when the mapping function of the flatMapped e, reacted on, gives a
\* plain value after it gave a Varying, e stops reacting on that Varying:
\* nothing reacts on it any more, e holds the plain value, and a later set
\* of that Varying calls no callback and leaves e as it is.  (While the
\* function gives the Varying, e holds one reaction on it and its value.)
C35_PlainResultLetsGo ==
  /\ (refs["e"] > 0 /\ ~IsRef(Picked)) =>
       /\ InnerHeld("e") = {} /\ inner["e"] = 0
       /\ refs["odds"] = 0 /\ obsv["odds"] = <<>>
       /\ val["e"] = Picked
       /\ \A o \in Live("e", "push") :
            Entries(o) # <<>> => Got(o)[Len(Got(o))] = Picked
  /\ (refs["e"] > 0 /\ IsRef(Picked)) =>
       /\ InnerHeld("e") = {inner["e"]} /\ obsv[Picked.c] = <<inner["e"]>>
       /\ val["e"] = val[Picked.c]
  /\ (last.op = "set" /\ last.c = "odds" /\ ~IsRef(Picked)) =>
       /\ Len(log) = last.pl
       /\ refs["e"] > 0 => val["e"] = Picked

\* e was reacted on while it tracked odds, choose has moved on to the plain
\* value, and odds has been set since: the reaction on e has been handed
\* the number of odds and then the plain value, nothing more.
C35_Witness ==
  /\ last.op = "set" /\ last.c = "odds" /\ ~last.flag
  /\ ~IsRef(Picked)
  /\ \E o \in Live("e", "push") : Got(o) = <<Num(1), Picked>>
  /\ \E q \in 1..Len(ob) : ob[q].owner = "e" /\ ob[q].kind = "inner" /\ ob[q].stopped

-----------------------------------------------------------------------------
(* Claims about get on a managed Varying, under SpecLend *)

\* C36: a get on the managed Varying m while nobody reacts on it leaves no
\* resource behind: each resource is created for the get and destroyed
\* before the get returns, m reacts on nothing afterwards and nothing
\* reacts on m; get answers with the value of the Varying the last
\* function gives.  (A get while somebody reacts on m creates and destroys
\* nothing.)
C36_GetLendsResources ==
  [][last'.op = "get" =>
       LET n == Len(Resources("m"))
           new == SubSeq(res', Len(res) + 1, Len(res'))
       IN /\ last'.v = Compute("m").v
          /\ refs' = refs /\ obsv' = obsv /\ ob' = ob /\ inner' = inner
          /\ ~thrown'
          /\ refs["m"] > 0 => new = <<>>
          /\ refs["m"] = 0 =>
               /\ Len(new) = 2 * n
               /\ \A i \in 1..n :
                    /\ new[i] = Event("create", "m", Resources("m")[i])
                    /\ new[n + i] = Event("destroy", "m", Resources("m")[i])
               /\ \A r \in C15_Resources : Created(res', r) = Destroyed(res', r)
               /\ inner'["m"] = 0 /\ refs'["m"] = 0 /\ refs'["mi"] = 0
    ]_vars

\* m has been asked for its value twice with nobody reacting on it, before
\* and after a reaction on it was made and stopped.
C36_Witness ==
  /\ last.op = "get" /\ ~last.flag
  /\ refs["m"] = 0 /\ halted # {}
  /\ \A r \in C15_Resources : Created(res, r) = 3 /\ Destroyed(res, r) = 3
  /\ last.v = Num(Result)

-----------------------------------------------------------------------------
(* Claims about calls of set from callbacks, under SpecCascade *)

\* No reaction that is not stopped adds one to the value it is handed.
Idempotent == \A o \in 1..Len(ob) : ob[o].kind = "bump" => ob[o].stopped

\* The reactions of the given kind on the list of v.
Listed(kind) == {k \in 1..Len(obsv["v"]) : ob[obsv["v"][k]].kind = kind}

\* The calls of set in progress.
Depth == Len(SelectSeq(stack, LAMBDA f : f.op = "set"))

\* C37: while every callback that sets v rounds (an idempotent function),
\* at most two calls of set are in progress at once, every call in
\* progress returns, and a set by the program of a value x returns with v
\* holding round(x) if a rounding reaction is on the list, within two
\* generations; while a reaction x => v.set(x + 1) is on the list, the
\* calls of set in progress never all return.
C37_CascadesEnd ==
  /\ [](Idempotent => Depth <= 2)
  /\ [][(Idempotent /\ stack # <<>> /\ stack' = <<>> /\ last.op = "set")
          => /\ gen'["v"] - last.pg <= 2
             /\ Listed("round") # {} => val'["v"] = Round(last.v)]_vars
  /\ (Idempotent /\ stack # <<>>) ~> (stack = <<>>)
  /\ [][(Listed("bump") # {} /\ Depth > 0) => Depth' > 0]_vars

\* A set of 3.5 with a rounding reaction on the list has returned with v
\* holding 4, two generations on; then a reaction adding one was made and
\* the next set has as many calls of set in progress as the stack holds.
C37_Witness ==
  /\ Depth = MaxStack
  /\ Listed("bump") # {} /\ Listed("round") # {}
  /\ \E i \in 1..Len(log) :
       /\ ob[log[i].o].kind = "round" /\ log[i].v = Num(7) /\ ~log[i].direct
       /\ \E j \in i + 1..Len(log) :
            ob[log[j].o].kind = "round" /\ log[j].v = Num(8) /\ log[j].g = log[i].g + 1

-----------------------------------------------------------------------------
(* Claims about the EditorView, under SpecEditor *)

\* C38: an edit made in the editor never has _cm.setValue called; a set of
\* the subject from outside the change handler that changes its value (the
\* lock not being held, nothing throwing) has _cm.setValue called exactly
\* once, and the change event this fires sets the subject to the value it
\* already holds: the subject keeps the value it was set to, one
\* generation on.
C38_OneRound ==
  [][/\ view'.did = "type" => view'.writes = view.writes
     /\ (view'.did = "set" /\ view.lock # "true" /\ ~thrown') =>
          /\ view'.writes = view.writes + 1
          /\ view'.subject = view'.arg
          /\ view'.gen = view.gen + 1
    ]_vars

\* C39: once a call from outside has returned, however it has ended, the
\* lock is not held.
C39_LockGivenBack == view.lock # "true"

-----------------------------------------------------------------------------
(* Claims about article-to-json, under SpecArticle *)

\* The document with every maximal run of adjacent <pre>s from the i-th
\* element on replaced by one marker, the markers numbered from id on.
RECURSIVE Collapsed(_, _, _)
Collapsed(doc, i, id) ==
  IF i > Len(doc) THEN <<>>
  ELSE IF doc[i].tag # "pre" THEN <<doc[i]>> \o Collapsed(doc, i + 1, id)
  ELSE IF i > 1 /\ doc[i - 1].tag = "pre" THEN Collapsed(doc, i + 1, id)
  ELSE <<Marker(id)>> \o Collapsed(doc, i + 1, id + 1)

\* The maximal runs of adjacent <pre>s of the document, by the place of
\* their first <pre>.
RunStarts(doc) ==
  {i \in 1..Len(doc) : doc[i].tag = "pre" /\ (i = 1 \/ doc[i - 1].tag # "pre")}

\* The loop has been left, by its condition or by an exception.
Left == article.pc \in {"done", "thrown"}

\* C40: once the loop has been left no top-level <pre> remains, every
\* maximal run of adjacent <pre>s has become one sample and one marker,
\* and the samples are numbered 0, 1, .. in document order, each by its
\* place in article.samples.
C40_RunsBecomeSamples ==
  Left =>
    /\ \A i \in 1..Len(article.dom) : article.dom[i].tag # "pre"
    /\ article.dom = Collapsed(article.source, 1, 0)
    /\ Len(article.samples) = Cardinality(RunStarts(article.source))
    /\ \A k \in 1..Len(article.samples) :
         /\ article.samples[k].id = k - 1
         /\ \E i \in RunStarts(article.source) :
              /\ Cardinality({j \in RunStarts(article.source) : j < i}) = k - 1
              /\ article.samples[k].of =
                   [j \in 1..LastPre(article.source, i) - i + 1 |-> i + j - 1]

====
